---- MODULE Spec2Model ----
\* A model of cloudcourse's registration rule engine: the datastore lock
\* (core/utils.py), the rule orchestration (core/rule_engine.py), the
\* memcache resource counters (core/rules.py, core/rules_impl.py) and the
\* online and offline registration paths.
EXTENDS Integers, Sequences, FiniteSets, TLC

VARIABLES
  now,      \* datetime.utcnow(), in clock ticks
  locks,    \* LockModel entities, by lock name
  caller,   \* callers of DbLock.RunSynchronous (lock layer)
  evalIn,   \* arguments of a _RulesEvaluate call over given rule verdicts
  evalOut,  \* what that call produced
  registrations,      \* datastore: UserRegistration entities, by key
  created,            \* datastore: number of UserRegistration keys allocated
  reprocess_tags,     \* datastore: Configuration of the rule tags to reprocess
  waitlist_reprocess, \* datastore: Configuration of registrations to make ready
  run_in_progress,    \* datastore: Configuration 'offline_run_in_progress'
  memcache,           \* the rule counters, by namespace
  client,             \* requests of the online path, access by access
  worker,             \* invocations of ProcessOfflineTask
  max_people,         \* the parameter of the max_people rule of the activity
  unbroken            \* the store of the same run when the cache is never lost

lockVars == <<now, locks>>
lockLayerVars == <<now, locks, caller>>
evalVars == <<evalIn, evalOut>>
configVars == <<reprocess_tags, waitlist_reprocess, run_in_progress>>
datastoreVars == <<registrations, created, reprocess_tags, waitlist_reprocess,
                   run_in_progress>>
mainVars == <<datastoreVars, memcache, client, worker>>
vars == <<now, locks, caller, evalIn, evalOut, registrations, created,
          reprocess_tags, waitlist_reprocess, run_in_progress, memcache,
          client, worker, max_people, unbroken>>

\* What the lock layer, the _RulesEvaluate calls and the registration paths
\* leave alone.
outsideLockLayer == <<evalVars, mainVars, max_people, unbroken>>
outsideEval == <<lockLayerVars, mainVars, max_people, unbroken>>
outsideMain == <<evalVars, max_people, unbroken>>

\* ---------------------------------------------------------------------
\* Bounds of the model
\* ---------------------------------------------------------------------
NumCallers == 2
MaxTime == 4
MaxTries == 2
MaxRules == 2
NumClients == 2
NumWorkers == 2
MaxRegs == 4
MaxPeople == 1
MaxStormRegs == 3

\* rules._NUM_RETRIES
NUM_RETRIES == 1

\* query_batch (20) and write_batch (10) of _ReadyRegistrationsInWaitingUnsafe,
\* scaled to the number of tags and registrations of the model.
QUERY_BATCH == 2
WRITE_BATCH == 1

\* DbLock.__MAX_LOCK_MILLISECONDS (31000 ms), measured in clock ticks.
MAX_LOCK_TICKS == 2

\* ---------------------------------------------------------------------
\* Registration status: core/utils.py, class RegistrationStatus
\* ---------------------------------------------------------------------
ENROLLED == "enrolled"
UNREGISTERED == "unregistered"
WAITLISTED == "waitlisted"
None == "None"

\* A table in which a denial (None) is also a target of UNREGISTERED.
VALID_TRANSITIONS_DENIABLE ==
  [b \in {None, ENROLLED, UNREGISTERED, WAITLISTED} |->
     CASE b = None -> <<ENROLLED, WAITLISTED, None>>
       [] b = ENROLLED -> <<UNREGISTERED, ENROLLED>>
       [] b = UNREGISTERED -> <<ENROLLED, WAITLISTED, UNREGISTERED, None>>
       [] b = WAITLISTED -> <<ENROLLED, UNREGISTERED, WAITLISTED>>]

\* Begin state -> the states it may move to, lower to higher precedence.
VALID_TRANSITIONS ==
  [b \in {None, ENROLLED, UNREGISTERED, WAITLISTED} |->
     CASE b = None -> <<ENROLLED, WAITLISTED, None>>
       [] b = ENROLLED -> <<UNREGISTERED, ENROLLED>>
       [] b = UNREGISTERED -> <<ENROLLED, WAITLISTED, UNREGISTERED>>
       [] b = WAITLISTED -> <<ENROLLED, UNREGISTERED, WAITLISTED>>]

Range(seq) == {seq[i] : i \in DOMAIN seq}

IsValidTransition(begin_state, end_state) ==
  \/ begin_state = end_state
  \/ /\ begin_state \in DOMAIN VALID_TRANSITIONS
     /\ end_state \in Range(VALID_TRANSITIONS[begin_state])

\* ---------------------------------------------------------------------
\* Rule orchestration: core/rule_engine.py, _RulesEvaluate
\* ---------------------------------------------------------------------
\* status_priority = dict(zip(order, range(len(order))))
status_priority(initial_status, status) ==
  CHOOSE i \in DOMAIN VALID_TRANSITIONS[initial_status] :
     VALID_TRANSITIONS[initial_status][i] = status

\* status_stop: the status of highest priority
status_stop(initial_status) ==
  VALID_TRANSITIONS[initial_status][Len(VALID_TRANSITIONS[initial_status])]

\* A break on the stop status whether the status is forced or not.
StopsEvaluationForced(initial_status, force_status, rule_status) ==
  rule_status = status_stop(initial_status)

\* if rule_status in status_stop and not eval_context.force_status: break
StopsEvaluation(initial_status, force_status, rule_status) ==
  rule_status = status_stop(initial_status) /\ ~force_status

\* A combined rule result that is the verdict of the first rule.
CombinedStatusFirst(initial_status, target_status, rule_results) ==
  IF rule_results = <<>> THEN target_status ELSE rule_results[1]

\* The combined rule result: the verdict of highest priority among the rules
\* that ran, target_status when none ran.
CombinedStatus(initial_status, target_status, rule_results) ==
  IF rule_results = <<>>
    THEN target_status
    ELSE CHOOSE st \in Range(rule_results) :
           \A other \in Range(rule_results) :
              status_priority(initial_status, other)
                 <= status_priority(initial_status, st)

\* The final status returned: target_status when the status is forced,
\* else the combined rule result.
FinalStatus(initial_status, target_status, force_status, rule_results) ==
  IF force_status
    THEN target_status
    ELSE CombinedStatus(initial_status, target_status, rule_results)

\* The loop over the rules; verdicts[i] is what rule i answers when asked.
RECURSIVE EvaluateRules(_, _, _, _, _)
EvaluateRules(initial_status, force_status, verdicts, i, rule_results) ==
  IF i > Len(verdicts)
    THEN [raised |-> FALSE, ran |-> i - 1, rule_results |-> rule_results]
    ELSE IF ~IsValidTransition(initial_status, verdicts[i])
      THEN [raised |-> TRUE, ran |-> i, rule_results |-> rule_results]
      ELSE IF StopsEvaluation(initial_status, force_status, verdicts[i])
        THEN [raised |-> FALSE, ran |-> i,
              rule_results |-> Append(rule_results, verdicts[i])]
        ELSE EvaluateRules(initial_status, force_status, verdicts, i + 1,
                           Append(rule_results, verdicts[i]))

RulesEvaluateAnyTarget(initial_status, target_status, force_status, verdicts) ==
  LET r == EvaluateRules(initial_status, force_status, verdicts, 1, <<>>)
  IN IF r.raised
       THEN [raised |-> TRUE, ran |-> r.ran, final_status |-> None,
             combined |-> None]
       ELSE [raised |-> FALSE, ran |-> r.ran,
             final_status |-> FinalStatus(initial_status, target_status,
                                          force_status, r.rule_results),
             combined |-> CombinedStatus(initial_status, target_status,
                                         r.rule_results)]

\* _RulesEvaluate: raised stands for BadStateTransition
RulesEvaluate(initial_status, target_status, force_status, verdicts) ==
  IF ~IsValidTransition(initial_status, target_status)
    THEN [raised |-> TRUE, ran |-> 0, final_status |-> None,
          combined |-> None]
    ELSE LET r == EvaluateRules(initial_status, force_status, verdicts, 1, <<>>)
         IN IF r.raised
              THEN [raised |-> TRUE, ran |-> r.ran, final_status |-> None,
                    combined |-> None]
              ELSE [raised |-> FALSE, ran |-> r.ran,
                    final_status |-> FinalStatus(initial_status, target_status,
                                                 force_status, r.rule_results),
                    combined |-> CombinedStatus(initial_status, target_status,
                                                r.rule_results)]

\* The rule configs of a program, of an activity and of two access points.
AccessPoints == {"x", "y"}

AccessPointRules(access_point) ==
  IF access_point = "x" THEN <<"x_rule">> ELSE <<"y_rule">>

RuleNames == {"program_rule", "activity_rule", "x_rule", "y_rule"}

\* _RuleGenerator, the access points: the rules of every access point of
\* the list, as often as the access point is listed.
RECURSIVE AccessPointRulesListed(_, _, _)
AccessPointRulesListed(access_point_list, i, processed_key_map) ==
  IF i > Len(access_point_list) THEN <<>>
  ELSE AccessPointRules(access_point_list[i])
          \o AccessPointRulesListed(access_point_list, i + 1,
                                    processed_key_map \cup {access_point_list[i]})

\* _RuleGenerator, the access points: the rules of an access point are
\* yielded unless its key is in processed_key_map.
RECURSIVE AccessPointRulesFrom(_, _, _)
AccessPointRulesFrom(access_point_list, i, processed_key_map) ==
  IF i > Len(access_point_list) THEN <<>>
  ELSE IF access_point_list[i] \in processed_key_map
    THEN AccessPointRulesFrom(access_point_list, i + 1, processed_key_map)
    ELSE AccessPointRules(access_point_list[i])
            \o AccessPointRulesFrom(access_point_list, i + 1,
                                    processed_key_map \cup {access_point_list[i]})

\* _RuleGenerator(eval_context): the rule configs in the order they are
\* yielded
RuleGenerator(program_rules, activity_rules, access_point_list) ==
  program_rules \o activity_rules
     \o AccessPointRulesFrom(access_point_list, 1, {})

Statuses == {None, ENROLLED, UNREGISTERED, WAITLISTED}

\* What a rule may answer: a status, or a value that is none.
Verdicts == Statuses \cup {"attended"}

VerdictLists == UNION {[1..n -> Verdicts] : n \in 0..MaxRules}

NotEvaluated ==
  [done |-> FALSE, raised |-> FALSE, ran |-> 0, final_status |-> None,
   combined |-> None]

\* ---------------------------------------------------------------------
\* Distributed lock: core/utils.py, class DbLock
\* ---------------------------------------------------------------------
LockNames ==
  {"A:activity", "B:activity", "activity", "offline_process_run_lock",
   "reprocess_rule_tags"}

\* The names the callers of the lock layer contend for.
CallerLockNames == {"A:activity", "offline_process_run_lock"}

\* db.get(self._lock_key) is None
NoLock == [present |-> FALSE, expire_time |-> 0]

\* LockModel(key_name, expire_time, lock_data)
LockModel(expire_time) == [present |-> TRUE, expire_time |-> expire_time]

\* The transaction body of AcquireLock: the entity written, or NoLock when
\* the lock is present and not expired (TryLock returns None).
TryLockLoose(lock, now_time) ==
  IF ~lock.present \/ lock.expire_time <= now_time + MAX_LOCK_TICKS
    THEN LockModel(now_time + MAX_LOCK_TICKS)
    ELSE NoLock

\* A TryLock that never takes over a lock that is present.
TryLockUnexpiring(lock, now_time) ==
  IF ~lock.present THEN LockModel(now_time + MAX_LOCK_TICKS) ELSE NoLock

TryLock(lock, now_time) ==
  IF ~lock.present
    THEN LockModel(now_time + MAX_LOCK_TICKS)
    ELSE IF lock.expire_time < now_time
      THEN LockModel(now_time + MAX_LOCK_TICKS)
      ELSE NoLock

\* self._acquired_lock.delete() when a lock was acquired
ReleaseLockKeep(lock, acquired) == lock

ReleaseLock(lock, acquired) == IF acquired.present THEN NoLock ELSE lock

\* while self._acquired_lock is None and (self._try_count == 0 or
\*                                        trials < self._try_count)
MayTry(try_count, trials, acquired) ==
  ~acquired.present /\ (try_count = 0 \/ trials < try_count)

\* ---------------------------------------------------------------------
\* Registrations: core/models.py, class UserRegistration
\* ---------------------------------------------------------------------
NOT_READY == "not_ready"
READY == "ready"
PROCESSED == "processed"
ACTIVE == "active"
INACTIVE == "inactive"

Users == {"A", "B"}

\* Keys of UserRegistration entities, in the order of their creation.
RegIds == 1..MaxRegs

\* Rule tags: the resource key of the max_people rule (rule key + '_') and
\* the tags of _GetRuleTagForEntity for the program and the activity.
ResourceTag == "max_people_"
rule_engine_tags == {"_rule_engine_tag_program", "_rule_engine_tag_activity"}
Tags == {ResourceTag} \cup rule_engine_tags

\* rule_result['rule_tags'] of the rule of a config
RuleTag(rule_config) == rule_config \o "_"

\* all_rule_tags: the tags of the rules that ran and the tags of the
\* program and of the activity
AllRuleTags(all_rule_configs) ==
  {RuleTag(rule_config) : rule_config \in all_rule_configs}
     \cup rule_engine_tags

\* affecting_rule_configs: the configs of the rules whose verdict is the
\* combined result; all configs when the status is forced
AffectingRuleConfigs(force_status, combined, all_rule_configs, answers) ==
  IF force_status THEN all_rule_configs
  ELSE {rule_config \in all_rule_configs : answers[rule_config] = combined}

\* No entity under the key (db.get returns None).
NoReg ==
  [exists |-> FALSE, user |-> "A", status |-> None, confirmed |-> NOT_READY,
   active |-> INACTIVE, force_status |-> FALSE, parent |-> 0,
   online_unregistered |-> FALSE, affecting_rule_tags |-> {}]

\* models.UserRegistration(eval_context=..., status=, confirmed=, active=)
UserRegistration(user, force_status, status, confirmed, active, parent, tags) ==
  [exists |-> TRUE, user |-> user, status |-> status, confirmed |-> confirmed,
   active |-> active, force_status |-> force_status, parent |-> parent,
   online_unregistered |-> FALSE, affecting_rule_tags |-> tags]

\* UserRegistration.ActiveQuery(activity, user)
ActiveQuery(regs, user) ==
  {k \in RegIds : regs[k].exists /\ regs[k].user = user
                    /\ regs[k].active = ACTIVE}

\* A query that yields the READY registration queued last.
NextReadyLatest(regs, status) ==
  LET ready == {k \in RegIds : regs[k].exists /\ regs[k].status = status
                                 /\ regs[k].confirmed = READY}
  IN IF ready = {} THEN 0
     ELSE CHOOSE k \in ready : \A j \in ready : k >= j

\* q.get() of the READY registrations of a status, by AddRegisterOrder
\* (queue_time, which grows with the key); 0 when there is none.
NextReady(regs, status) ==
  LET ready == {k \in RegIds : regs[k].exists /\ regs[k].status = status
                                 /\ regs[k].confirmed = READY}
  IN IF ready = {} THEN 0
     ELSE CHOOSE k \in ready : \A j \in ready : k <= j

\* ---------------------------------------------------------------------
\* Resource counters in memcache: core/rules.py, class RuleBase
\* ---------------------------------------------------------------------
\* memcache.get / memcache.incr return None: the key is not cached.
Missing == -1

\* One rule namespace: the counter under key '_' and the '__init__' flag.
EmptyNamespace == [counter |-> Missing, init |-> FALSE]

Namespaces == {"online", "offline"}

\* _RegistrationNeedsAccounting(reg, offline)
RegistrationNeedsAccounting(reg, offline) ==
  IF offline
    THEN reg.status = ENROLLED /\ reg.confirmed = PROCESSED
    ELSE \/ reg.active = ACTIVE
         \/ reg.status = ENROLLED /\ reg.confirmed = NOT_READY
         \/ reg.status = UNREGISTERED /\ reg.confirmed = READY

\* A _BuildContext that finds nothing to count offline.
BuildContextOnlineOnly(regs, offline) ==
  IF offline THEN 0
  ELSE Cardinality({k \in RegIds : regs[k].exists
                      /\ RegistrationNeedsAccounting(regs[k], offline)})

\* MaxNumberRegisteredByActivity._BuildContext: num_students
BuildContext(regs, offline) ==
  Cardinality({k \in RegIds : regs[k].exists
                                /\ RegistrationNeedsAccounting(regs[k], offline)})

\* memcache.incr: the namespace afterwards (a missing key stays missing)
MemcacheIncr(ns) ==
  IF ns.counter = Missing THEN ns ELSE [ns EXCEPT !.counter = @ + 1]

\* memcache.decr: nothing below 0, a missing key stays missing
MemcacheDecr(ns) ==
  IF ns.counter = Missing \/ ns.counter = 0 THEN ns
  ELSE [ns EXCEPT !.counter = @ - 1]

\* memcache.add_multi(context) and memcache.add('__init__'): only if absent
MemcacheAdd(ns, value) ==
  [counter |-> IF ns.counter = Missing THEN value ELSE ns.counter,
   init |-> TRUE]

\* What _Regenerate adds: the context, minus the caller's own provisional
\* entry when online.
RegenerateValue(regs, offline) ==
  IF offline THEN BuildContext(regs, offline)
  ELSE BuildContext(regs, offline) - 1

\* _Regenerate, run without interruption
Regenerate(ns, regs, offline) == MemcacheAdd(ns, RegenerateValue(regs, offline))

\* _Incr, run without interruption: the namespace afterwards. The counter
\* is regenerated when it is missing and incremented again.
Incr(ns, regs, offline) ==
  IF ns.counter # Missing THEN MemcacheIncr(ns)
  ELSE MemcacheIncr(Regenerate(ns, regs, offline))

\* _Get, run without interruption: the namespace afterwards
Get(ns, regs, offline) ==
  IF ns.counter # Missing THEN ns ELSE Regenerate(ns, regs, offline)

\* ---------------------------------------------------------------------
\* The max_people rule: core/rules_impl.py, class MaxNumberRegisteredBy
\* ---------------------------------------------------------------------
\* A max_people rule that lets one registration too many in.
EvaluateEnrollOneMore(num_students) ==
  IF num_students <= max_people + 1
    THEN [status |-> ENROLLED, resource_remaining |-> max_people - num_students]
    ELSE [status |-> WAITLISTED, resource_remaining |-> max_people - num_students]

\* _Evaluate for target ENROLLED, given the incremented counter
EvaluateEnroll(num_students) ==
  IF num_students <= max_people
    THEN [status |-> ENROLLED, resource_remaining |-> max_people - num_students]
    ELSE [status |-> WAITLISTED, resource_remaining |-> max_people - num_students]

\* _Evaluate for any other target, given the counter read (Missing: None)
EvaluateOther(target_state, resources_used) ==
  [status |-> target_state,
   resource_remaining |->
      max_people - (IF resources_used = Missing THEN max_people ELSE resources_used)]

\* A rule that leaves its increment in place offline as well.
EvaluateKeepsIncrement(ns, regs, offline) ==
  LET incremented == Incr(ns, regs, offline)
      verdict == EvaluateEnroll(incremented.counter)
  IN [status |-> verdict.status,
      resource_remaining |-> verdict.resource_remaining,
      namespace |-> incremented]

\* _Evaluate(initial_state, ENROLLED), run without interruption: the verdict
\* and the namespace of the rule afterwards
Evaluate(ns, regs, offline) ==
  LET incremented == Incr(ns, regs, offline)
      verdict == EvaluateEnroll(incremented.counter)
  IN [status |-> verdict.status,
      resource_remaining |-> verdict.resource_remaining,
      namespace |-> IF verdict.status = WAITLISTED /\ offline
                      THEN MemcacheDecr(incremented)
                      ELSE incremented]

\* A _ProcessOnlineOutcome that releases nothing.
ProcessOnlineOutcomeKeeps(ns, eval_state, final_state) == ns

\* _ProcessOnlineOutcome: the online namespace afterwards
ProcessOnlineOutcome(ns, eval_state, final_state) ==
  IF eval_state = UNREGISTERED
    THEN IF final_state = UNREGISTERED THEN MemcacheDecr(ns) ELSE ns
    ELSE IF final_state = None THEN MemcacheDecr(ns) ELSE ns

\* A _ProcessOfflineOutcome that does not count an enrollment the rule had
\* answered WAITLISTED.
ProcessOfflineOutcomeAsEvaluated(ns, regs, eval_state, final_state) ==
  IF eval_state = UNREGISTERED
    THEN IF final_state = UNREGISTERED THEN MemcacheDecr(ns) ELSE ns
    ELSE IF eval_state = ENROLLED
      THEN IF final_state # ENROLLED THEN MemcacheDecr(ns) ELSE ns
      ELSE ns

\* _ProcessOfflineOutcome: the offline namespace afterwards
ProcessOfflineOutcome(ns, regs, eval_state, final_state) ==
  IF eval_state = UNREGISTERED
    THEN IF final_state = UNREGISTERED THEN MemcacheDecr(ns) ELSE ns
    ELSE IF eval_state = ENROLLED
      THEN IF final_state # ENROLLED THEN MemcacheDecr(ns) ELSE ns
      ELSE IF final_state = ENROLLED THEN Incr(ns, regs, TRUE) ELSE ns

\* The rule tags _RulesEvaluate returns as affecting: the tags of the rules
\* that agree with the final status (of all rules when the status is
\* forced) and the program and activity tags.
AffectingRuleTags(rule_status, final_status, force_status) ==
  IF rule_status = final_status \/ force_status THEN Tags ELSE rule_engine_tags

\* ---------------------------------------------------------------------
\* The handlers of core/rule_engine.py, each run without interruption on
\* a store: the registrations, the number of keys allocated, the rule
\* counters and the tags to reprocess.
\* ---------------------------------------------------------------------
\* A provisional entry that is written ACTIVE.
ProvisionalEntryActive(user, force_status) ==
  UserRegistration(user, force_status, ENROLLED, NOT_READY, ACTIVE, 0, {})

\* _RegisterOnlineUnsafe: new_entry, put before the rules are evaluated
ProvisionalEntry(user, force_status) ==
  UserRegistration(user, force_status, ENROLLED, NOT_READY, INACTIVE, 0, {})

\* A denied entry that is left as it was put.
FinalEntryKept(new_entry, final_status, a_rule_tags) ==
  IF final_status = None THEN new_entry
  ELSE [new_entry EXCEPT !.status = final_status, !.confirmed = READY,
                         !.active = ACTIVE, !.affecting_rule_tags = a_rule_tags]

\* _RegisterOnlineUnsafe: new_entry after the rules were evaluated, deleted
\* when denied, else put with the final status, READY and ACTIVE
FinalEntry(new_entry, final_status, a_rule_tags) ==
  IF final_status = None THEN NoReg
  ELSE [new_entry EXCEPT !.status = final_status, !.confirmed = READY,
                         !.active = ACTIVE, !.affecting_rule_tags = a_rule_tags]

\* An InitiateUnregister that leaves the active registration ACTIVE.
InitiateUnregisterChildOnly(regs, new_key, k, a_rule_tags) ==
  [regs EXCEPT
     ![new_key] = UserRegistration(regs[k].user, FALSE, UNREGISTERED, READY,
                                   INACTIVE, k, a_rule_tags)]

\* _UnregisterOnlineUnsafe: db.run_in_transaction(InitiateUnregister), the
\* new entry parented to the active registration and the active
\* registration made INACTIVE
InitiateUnregister(regs, new_key, k, a_rule_tags) ==
  [regs EXCEPT
     ![new_key] = UserRegistration(regs[k].user, FALSE, UNREGISTERED, READY,
                                   INACTIVE, k, a_rule_tags),
     ![k] = [regs[k] EXCEPT !.active = INACTIVE]]

\* _RegisterOnlineUnsafe with an active registration: the entity afterwards
ReRegisterForced(reg, force_status) ==
  [reg EXCEPT !.status = ENROLLED, !.confirmed = READY, !.force_status = TRUE]

\* A forced re-registration that writes the entity whatever its status.
ReRegisterAlways(reg, force_status) ==
  IF ~force_status THEN reg
  ELSE [reg EXCEPT !.status = ENROLLED, !.confirmed = READY,
                   !.force_status = TRUE]

ReRegister(reg, force_status) ==
  IF ~force_status THEN reg
  ELSE IF reg.status # ENROLLED
    THEN [reg EXCEPT !.status = ENROLLED, !.confirmed = READY,
                     !.force_status = TRUE]
    ELSE reg

\* What a handler gives back: the store afterwards and what it returns.
Outcome(st, result, resource_remaining) ==
  [store |-> st, result |-> result, resource_remaining |-> resource_remaining]

\* _RegisterOnlineUnsafe(eval_context) on an activity whose rules are the
\* max_people rule and rules that answer others
RegisterOnlineRules(st, user, force_status, others) ==
  LET active_list == ActiveQuery(st.registrations, user)
      k == CHOOSE k \in active_list : TRUE
      new_key == st.created + 1
      provisional == [st.registrations EXCEPT ![new_key] =
                        ProvisionalEntry(user, force_status)]
      incremented == Incr(st.memcache["online"], provisional, FALSE)
      verdict == EvaluateEnroll(incremented.counter)
      final_status == RulesEvaluate(None, ENROLLED, force_status,
                                    <<verdict.status>> \o others).final_status
      a_rule_tags == AffectingRuleTags(verdict.status, final_status, force_status)
  IN IF Cardinality(active_list) > 1
       THEN Outcome(st, "AssertionError", 0)
     ELSE IF active_list # {}
       THEN Outcome([st EXCEPT !.registrations[k] = ReRegister(@, force_status)],
                    IF force_status THEN ENROLLED ELSE st.registrations[k].status,
                    0)
     ELSE Outcome(
            [st EXCEPT
               !.created = new_key,
               !.registrations = [provisional EXCEPT ![new_key] =
                  FinalEntry(@, final_status, a_rule_tags)],
               !.memcache["online"] =
                  ProcessOnlineOutcome(incremented, verdict.status, final_status)],
            final_status, verdict.resource_remaining)

\* _RegisterOnlineUnsafe(eval_context), the max_people rule alone
RegisterOnlineUnsafe(st, user, force_status) ==
  RegisterOnlineRules(st, user, force_status, <<>>)

\* An _Incr that increments in prediction mode as well.
IncrPredictingCounts(ns, regs) == Incr(ns, regs, FALSE)

\* _Incr in prediction mode: value = self._Get(key), which regenerates a
\* counter that is not cached (nothing is subtracted in prediction mode);
\* the namespace afterwards
IncrPredicting(ns, regs) ==
  IF ns.counter # Missing THEN ns
  ELSE MemcacheAdd(ns, BuildContext(regs, FALSE))

\* _Incr in prediction mode: the value it returns
PredictedValue(ns) ==
  IF ns.counter = Missing \/ ns.counter = 0 THEN 1 ELSE ns.counter + 1

\* _Decr in prediction mode
DecrPredicting(ns) == ns

\* PredictRegistrationOutcome(eval_context)
PredictRegistrationOutcome(st, force_status, others) ==
  LET looked_up == IncrPredicting(st.memcache["online"], st.registrations)
      verdict == EvaluateEnroll(PredictedValue(looked_up))
      final_status == RulesEvaluate(None, ENROLLED, force_status,
                                    <<verdict.status>> \o others).final_status
  IN Outcome([st EXCEPT !.memcache["online"] = DecrPredicting(looked_up)],
             final_status, verdict.resource_remaining)

\* _RegisterOnlineUnsafe(eval_context) while IsPredictionMode() answers
\* True: _Incr returns the value of _Get plus one and writes nothing,
\* _Regenerate subtracts nothing and _Decr does nothing.
RegisterOnlinePredicting(st, user, force_status, others) ==
  LET active_list == ActiveQuery(st.registrations, user)
      k == CHOOSE k \in active_list : TRUE
      new_key == st.created + 1
      provisional == [st.registrations EXCEPT ![new_key] =
                        ProvisionalEntry(user, force_status)]
      looked_up == IncrPredicting(st.memcache["online"], provisional)
      verdict == EvaluateEnroll(PredictedValue(looked_up))
      final_status == RulesEvaluate(None, ENROLLED, force_status,
                                    <<verdict.status>> \o others).final_status
      a_rule_tags == AffectingRuleTags(verdict.status, final_status, force_status)
  IN IF Cardinality(active_list) > 1
       THEN Outcome(st, "AssertionError", 0)
     ELSE IF active_list # {}
       THEN Outcome([st EXCEPT !.registrations[k] = ReRegister(@, force_status)],
                    IF force_status THEN ENROLLED ELSE st.registrations[k].status,
                    0)
     ELSE Outcome(
            [st EXCEPT
               !.created = new_key,
               !.registrations = [provisional EXCEPT ![new_key] =
                  FinalEntry(@, final_status, a_rule_tags)],
               !.memcache["online"] = DecrPredicting(looked_up)],
            final_status, verdict.resource_remaining)

\* _UnregisterOnlineUnsafe(eval_context)
UnregisterOnlineUnsafe(st, user) ==
  LET active_list == ActiveQuery(st.registrations, user)
      k == CHOOSE k \in active_list : TRUE
      active_registration == st.registrations[k]
      looked_up == Get(st.memcache["online"], st.registrations, FALSE)
      verdict == EvaluateOther(UNREGISTERED, looked_up.counter)
      final_status == RulesEvaluate(active_registration.status, UNREGISTERED,
                                    FALSE, <<verdict.status>>).final_status
      a_rule_tags == AffectingRuleTags(verdict.status, final_status, FALSE)
      new_key == st.created + 1
  IN IF Cardinality(active_list) > 1
       THEN Outcome(st, "AssertionError", 0)
     ELSE IF active_list = {}
       THEN Outcome(st, UNREGISTERED, 0)
     ELSE Outcome(
            [st EXCEPT
               !.created = new_key,
               !.registrations = InitiateUnregister(@, new_key, k, a_rule_tags),
               !.memcache["online"] = looked_up],
            final_status, verdict.resource_remaining)

\* _CheckPointed, on entry: a new namespace (no counter in it) when the
\* previous run has not ended normally.
\* A _CheckPointed that hands out the stored namespace whatever happened.
CheckPointedNamespaceStored(ns, in_progress) == ns

CheckPointedNamespace(ns, in_progress) ==
  IF in_progress THEN EmptyNamespace ELSE ns

\* SaveRuleTagsToReprocess(rule_tags), under the lock of the tags entity:
\* the tags join those already stored.
SaveRuleTagsToReprocessUnsafe(old_rule_tag_set, rule_tags) ==
  old_rule_tag_set \cup rule_tags

\* The offline namespace after the rules were evaluated offline for a
\* registration (target ENROLLED) or an unregistration.
EvaluateOffline(st, rec, namespace) ==
  LET incremented == Incr(namespace, st.registrations, TRUE)
  IN IF st.registrations[rec].status = UNREGISTERED
       THEN Get(namespace, st.registrations, TRUE)
       ELSE IF EvaluateEnroll(incremented.counter).status = WAITLISTED
         THEN MemcacheDecr(incremented)
         ELSE incremented

\* A processed_enroll that is true of every enrollment, confirmed or not.
ProcessedEnrollUnconfirmed(st, rec) ==
  LET parent_enroll == st.registrations[st.registrations[rec].parent]
  IN /\ st.registrations[rec].status = UNREGISTERED
     /\ parent_enroll.status = ENROLLED

\* _UnregisterOfflineUnsafe: the offline process has processed the
\* enrollment the unregistration cancels and counted its resources.
ProcessedEnroll(st, rec) ==
  LET parent_enroll == st.registrations[st.registrations[rec].parent]
  IN /\ st.registrations[rec].status = UNREGISTERED
     /\ parent_enroll.confirmed = PROCESSED
     /\ parent_enroll.status = ENROLLED

\* _UnregisterOfflineUnsafe(unregister, namespace)
UnregisterOfflineUnsafe(st, rec, namespace) ==
  LET unregister == st.registrations[rec]
      parent_enroll == st.registrations[unregister.parent]
      processed_enroll == ProcessedEnroll(st, rec)
      evaluated == EvaluateOffline(st, rec, namespace)
      final_status == RulesEvaluate(parent_enroll.status, UNREGISTERED,
                                    unregister.force_status,
                                    <<UNREGISTERED>>).final_status
      a_rule_tags == AffectingRuleTags(UNREGISTERED, final_status,
                                       unregister.force_status)
  IN [st EXCEPT
        !.memcache = [@ EXCEPT
           !["online"] =
              IF unregister.online_unregistered THEN @
              ELSE ProcessOnlineOutcome(@, UNREGISTERED, UNREGISTERED),
           !["offline"] =
              IF processed_enroll
                THEN ProcessOfflineOutcome(evaluated, st.registrations,
                                           UNREGISTERED, final_status)
                ELSE evaluated],
        !.reprocess_tags =
           IF processed_enroll
             THEN SaveRuleTagsToReprocessUnsafe(@, a_rule_tags)
             ELSE @,
        !.registrations = [@ EXCEPT ![rec] = NoReg,
                                    ![unregister.parent] = NoReg]]

\* The places where a run of _UnregisterOfflineUnsafe can end with an
\* exception (a deadline, a datastore or memcache failure): after the rules
\* were evaluated, after unregister.put() saved online_unregistered, after
\* _RulesNotifyOnline, after _RulesNotify and SaveRuleTagsToReprocess.
CrashPoints == {"evaluated", "flagged", "notified", "released"}

\* A run cut at the crash point that releases online whatever the flag says.
UnregisterOfflineUpToUnflagged(st, rec, namespace, cut) ==
  LET evaluated == EvaluateOffline(st, rec, namespace)
  IN [st EXCEPT
        !.memcache = [@ EXCEPT
           !["online"] =
              IF cut \in {"notified", "released"}
                THEN ProcessOnlineOutcome(@, UNREGISTERED, UNREGISTERED)
                ELSE @,
           !["offline"] = evaluated],
        !.registrations =
           IF cut = "evaluated" THEN @
           ELSE [@ EXCEPT ![rec].online_unregistered = TRUE]]

\* _UnregisterOfflineUnsafe(unregister, namespace), cut at a crash point:
\* what the run has written when the exception is raised.
UnregisterOfflineUpTo(st, rec, namespace, cut) ==
  LET unregister == st.registrations[rec]
      parent_enroll == st.registrations[unregister.parent]
      processed_enroll == ProcessedEnroll(st, rec)
      evaluated == EvaluateOffline(st, rec, namespace)
      final_status == RulesEvaluate(parent_enroll.status, UNREGISTERED,
                                    unregister.force_status,
                                    <<UNREGISTERED>>).final_status
      a_rule_tags == AffectingRuleTags(UNREGISTERED, final_status,
                                       unregister.force_status)
      online_decrement == unregister.online_unregistered
  IN [st EXCEPT
        !.memcache = [@ EXCEPT
           !["online"] =
              IF cut \in {"notified", "released"} /\ ~online_decrement
                THEN ProcessOnlineOutcome(@, UNREGISTERED, UNREGISTERED)
                ELSE @,
           !["offline"] =
              IF cut = "released" /\ processed_enroll
                THEN ProcessOfflineOutcome(evaluated, st.registrations,
                                           UNREGISTERED, final_status)
                ELSE evaluated],
        !.reprocess_tags =
           IF cut = "released" /\ processed_enroll
             THEN SaveRuleTagsToReprocessUnsafe(@, a_rule_tags)
             ELSE @,
        !.registrations =
           IF cut = "evaluated" THEN @
           ELSE [@ EXCEPT ![rec].online_unregistered = TRUE]]

\* _RegisterOfflineUnsafe(register, namespace)
RegisterOfflineUnsafe(st, rec, namespace) ==
  LET register == st.registrations[rec]
      incremented == Incr(namespace, st.registrations, TRUE)
      verdict == EvaluateEnroll(incremented.counter)
      evaluated == EvaluateOffline(st, rec, namespace)
      final_status == RulesEvaluate(None, ENROLLED, register.force_status,
                                    <<verdict.status>>).final_status
      a_rule_tags == AffectingRuleTags(verdict.status, final_status,
                                       register.force_status)
  IN [st EXCEPT
        !.memcache = [@ EXCEPT
           !["offline"] = ProcessOfflineOutcome(evaluated, st.registrations,
                                                verdict.status, final_status),
           !["online"] = IF final_status = None
                           THEN ProcessOnlineOutcome(@, ENROLLED, None)
                           ELSE @],
        !.registrations = [@ EXCEPT ![rec] =
           IF final_status = None THEN NoReg
           ELSE [register EXCEPT !.confirmed = PROCESSED,
                                 !.status = final_status,
                                 !.affecting_rule_tags = a_rule_tags]]]

\* The register rules of an activity, in the order _RuleGenerator yields
\* them: the max_people rule alone, or with an EmployeeTypeRestriction
\* before or after it.
RuleOrders ==
  {<<"max_people">>, <<"employee_type", "max_people">>,
   <<"max_people", "employee_type">>}

\* EmployeeTypeRestriction.Evaluate(None, ENROLLED) offline, without an
\* exception: ENROLLED, or None for a person not found or of another type.
EmployeeStatuses == {ENROLLED, None}

\* _RegisterOfflineUnsafe(register, namespace) with the rules of
\* rule_configs; the max_people rule is among all_rule_configs only if it
\* was evaluated before _RulesEvaluate stopped.
RegisterOfflineRules(st, rec, namespace, rule_configs, employee_status) ==
  LET register == st.registrations[rec]
      incremented == Incr(namespace, st.registrations, TRUE)
      verdict == EvaluateEnroll(incremented.counter)
      verdicts == [i \in DOMAIN rule_configs |->
                     IF rule_configs[i] = "max_people" THEN verdict.status
                     ELSE employee_status]
      result == RulesEvaluate(None, ENROLLED, register.force_status, verdicts)
      final_status == result.final_status
      evaluated == \E i \in 1..result.ran : rule_configs[i] = "max_people"
      a_rule_tags ==
         IF evaluated
           THEN AffectingRuleTags(verdict.status, result.combined,
                                  register.force_status)
           ELSE rule_engine_tags
  IN [st EXCEPT
        !.memcache = [@ EXCEPT
           !["offline"] =
              IF evaluated
                THEN ProcessOfflineOutcome(
                        EvaluateOffline(st, rec, namespace), st.registrations,
                        verdict.status, final_status)
                ELSE namespace,
           !["online"] = IF final_status = None /\ evaluated
                           THEN ProcessOnlineOutcome(@, ENROLLED, None)
                           ELSE @],
        !.registrations = [@ EXCEPT ![rec] =
           IF final_status = None THEN NoReg
           ELSE [register EXCEPT !.confirmed = PROCESSED,
                                 !.status = final_status,
                                 !.affecting_rule_tags = a_rule_tags]]]

\* The handler _FetchAndProcessOffline runs for a record of a status
RunFunction(st, rec, namespace) ==
  IF st.registrations[rec].status = UNREGISTERED
    THEN UnregisterOfflineUnsafe(st, rec, namespace)
    ELSE RegisterOfflineUnsafe(st, rec, namespace)

\* ---------------------------------------------------------------------
\* Requests, handler by handler: each call of RegisterOnline and
\* UnregisterOnline runs under its registration lock in one step.
\* ---------------------------------------------------------------------
\* RegistrationLock(user, activity): the lock name '<email>:<activity key>'
RegistrationLock(user) == user \o ":activity"

ReprocessTagsLock == "reprocess_rule_tags"

OfflineLock == "offline_process_run_lock"

\* models.Activity.GetLock(activity_key)
ActivityLock == "activity"

\* The lock record a successful AcquireLock writes now.
Acquired == TryLock(NoLock, now)

\* An AcquireLock that takes the lock whoever holds it.
CanAcquireAnyway(name) == TRUE

CanAcquire(name) == TryLock(locks[name], now).present

\* The store the handlers work on, and the store after a handler.
Store ==
  [registrations |-> registrations, created |-> created,
   memcache |-> memcache, reprocess_tags |-> reprocess_tags]

Becomes(st) ==
  /\ registrations' = st.registrations
  /\ created' = st.created
  /\ memcache' = st.memcache
  /\ reprocess_tags' = st.reprocess_tags

\* A key is left for the entity the call may create.
HasKeyFor(st, user) ==
  ActiveQuery(st.registrations, user) = {} => st.created < MaxRegs

\* RegisterOnline(eval_context)
RegisterOnlineRequest(user, force_status) ==
  /\ CanAcquire(RegistrationLock(user))
  /\ HasKeyFor(Store, user)
  /\ Becomes(RegisterOnlineUnsafe(Store, user, force_status).store)
  /\ UNCHANGED <<lockLayerVars, waitlist_reprocess, run_in_progress, client,
                 worker, outsideMain>>

\* RegisterOnline(eval_context) when other rules follow the max_people rule
RegisterOnlineRequestWith(user, force_status, others) ==
  /\ CanAcquire(RegistrationLock(user))
  /\ HasKeyFor(Store, user)
  /\ Becomes(RegisterOnlineRules(Store, user, force_status, others).store)
  /\ UNCHANGED <<lockLayerVars, waitlist_reprocess, run_in_progress, client,
                 worker, outsideMain>>

\* PredictRegistrationOutcome(eval_context)
PredictRegistrationOutcomeRequest(force_status, others) ==
  /\ Becomes(PredictRegistrationOutcome(Store, force_status, others).store)
  /\ UNCHANGED <<lockLayerVars, waitlist_reprocess, run_in_progress, client,
                 worker, outsideMain>>

\* UnregisterOnline(eval_context)
UnregisterOnlineRequest(user) ==
  /\ CanAcquire(RegistrationLock(user))
  /\ ActiveQuery(registrations, user) # {}
  /\ created < MaxRegs
  /\ Becomes(UnregisterOnlineUnsafe(Store, user).store)
  /\ UNCHANGED <<lockLayerVars, waitlist_reprocess, run_in_progress, client,
                 worker, outsideMain>>

\* memcache loses the keys of a namespace (flush or eviction).
Flush(namespace) ==
  /\ memcache[namespace] # EmptyNamespace
  /\ memcache' = [memcache EXCEPT ![namespace] = EmptyNamespace]
  /\ UNCHANGED <<lockLayerVars, datastoreVars, client, worker, outsideMain>>

\* _ReprocessRegistrations(activity key): rules were added to the activity
ReprocessRegistrations ==
  /\ CanAcquire(ReprocessTagsLock)
  /\ "_rule_engine_tag_activity" \notin reprocess_tags
  /\ reprocess_tags' = SaveRuleTagsToReprocessUnsafe(
                           reprocess_tags, {"_rule_engine_tag_activity"})
  /\ UNCHANGED <<lockLayerVars, registrations, created, waitlist_reprocess,
                 run_in_progress, memcache, client, worker, outsideMain>>

\* MaxNumberRegisteredByActivity.TagsToReprocessOnChange(rule_config)
TagsToReprocessOnChange == {ResourceTag}

\* _ProcessRuleUpdate(rule_configs, activity key): the tags to reprocess
\* afterwards
ProcessRuleUpdate(old_rule_tag_set) ==
  SaveRuleTagsToReprocessUnsafe(old_rule_tag_set, TagsToReprocessOnChange)

\* UpdateProgramOrActivityRules(activity, rule_configs) with a max_people
\* rule whose parameter differs from the current one: the activity gets
\* the new rule config, whose key is new, so that the counters of the rule
\* are looked up in namespaces where nothing is cached; the deferred
\* _ProcessRuleUpdate saves the resource tag of the modified rule.
UpdateProgramOrActivityRules(new_max_people) ==
  /\ new_max_people # max_people
  /\ CanAcquire(ReprocessTagsLock)
  /\ max_people' = new_max_people
  /\ memcache' = [namespace \in Namespaces |-> EmptyNamespace]
  /\ reprocess_tags' = ProcessRuleUpdate(reprocess_tags)
  /\ UNCHANGED <<lockLayerVars, registrations, created, waitlist_reprocess,
                 run_in_progress, client, worker, evalVars, unbroken>>

\* ---------------------------------------------------------------------
\* The same sequence of operations with and without losing the cache:
\* every operation is applied to the store and to the store of the
\* unbroken run, which never loses its counters.
\* ---------------------------------------------------------------------
EmptyStore ==
  [registrations |-> [k \in RegIds |-> NoReg], created |-> 0,
   memcache |-> [namespace \in Namespaces |-> EmptyNamespace],
   reprocess_tags |-> {}]

BothRegisterOnline(user, force_status) ==
  /\ HasKeyFor(Store, user) /\ HasKeyFor(unbroken, user)
  /\ Becomes(RegisterOnlineUnsafe(Store, user, force_status).store)
  /\ unbroken' = RegisterOnlineUnsafe(unbroken, user, force_status).store
  /\ UNCHANGED <<lockLayerVars, waitlist_reprocess, run_in_progress, client,
                 worker, evalVars, max_people>>

BothUnregisterOnline(user) ==
  /\ ActiveQuery(registrations, user) # {}
  /\ ActiveQuery(unbroken.registrations, user) # {}
  /\ created < MaxRegs /\ unbroken.created < MaxRegs
  /\ Becomes(UnregisterOnlineUnsafe(Store, user).store)
  /\ unbroken' = UnregisterOnlineUnsafe(unbroken, user).store
  /\ UNCHANGED <<lockLayerVars, waitlist_reprocess, run_in_progress, client,
                 worker, evalVars, max_people>>

\* One unit of offline work on the next READY registration of a status
ProcessOfflineUnit(st, status) ==
  LET rec == NextReady(st.registrations, status)
  IN IF rec = 0 THEN st ELSE RunFunction(st, rec, st.memcache["offline"])

BothProcessOffline(status) ==
  /\ \/ NextReady(registrations, status) # 0
     \/ NextReady(unbroken.registrations, status) # 0
  /\ Becomes(ProcessOfflineUnit(Store, status))
  /\ unbroken' = ProcessOfflineUnit(unbroken, status)
  /\ UNCHANGED <<lockLayerVars, waitlist_reprocess, run_in_progress, client,
                 worker, evalVars, max_people>>

\* ---------------------------------------------------------------------
\* Requests, access by access: concurrent calls of RegisterOnline and
\* UnregisterOnline, each datastore and memcache access a step.
\* ---------------------------------------------------------------------
Clients == 1..NumClients

IdleClient ==
  [pc |-> "idle", op |-> "none", user |-> "A", force_status |-> FALSE,
   reg |-> 0, retries |-> 0, context |-> 0, status |-> None,
   resource_remaining |-> 0, result |-> "none", others |-> <<>>]

\* What the caller of RegisterOnline / UnregisterOnline gets; the lock it
\* held is released (finally: ReleaseLock).
Done(c, result, resource_remaining) ==
  [IdleClient EXCEPT !.pc = "done", !.op = c.op, !.user = c.user,
                     !.force_status = c.force_status, !.reg = c.reg,
                     !.result = result,
                     !.resource_remaining = resource_remaining]

\* A request of a user starts.
Called(op, user, force_status) ==
  [IdleClient EXCEPT !.pc = "called", !.op = op, !.user = user,
                     !.force_status = force_status]

\* RegisterOnline(eval_context): AcquireLock succeeds and
\* _RegisterOnlineUnsafe starts with the query for the active registration,
\* and either the answer for a registered user or the put of the
\* provisional entry (NOT_READY, INACTIVE). others are the verdicts of the
\* rules enumerated after the max_people rule.
RegisterOnlineWith(c, user, force_status, others) ==
  LET me == [Called("register", user, force_status) EXCEPT !.others = others]
      name == RegistrationLock(user)
      active_list == ActiveQuery(registrations, user)
  IN /\ client[c].pc = "idle"
     /\ CanAcquire(name)
     /\ IF Cardinality(active_list) > 1
          THEN \* assert len(active_list) <= 1
               /\ client' = [client EXCEPT ![c] = Done(me, "AssertionError", 0)]
               /\ UNCHANGED <<locks, datastoreVars>>
          ELSE IF active_list # {}
            THEN LET k == CHOOSE k \in active_list : TRUE
                     after == ReRegister(registrations[k], force_status)
                 IN /\ registrations' = [registrations EXCEPT ![k] = after]
                    /\ client' = [client EXCEPT ![c] =
                          Done(me, IF force_status THEN ENROLLED
                                   ELSE registrations[k].status, 0)]
                    /\ UNCHANGED <<locks, created, configVars>>
            ELSE /\ created < MaxStormRegs
                 /\ created' = created + 1
                 /\ registrations' = [registrations EXCEPT ![created + 1] =
                       ProvisionalEntry(user, force_status)]
                 /\ locks' = [locks EXCEPT ![name] = Acquired]
                 /\ client' = [client EXCEPT ![c] =
                       [me EXCEPT !.pc = "incr", !.reg = created + 1,
                                  !.retries = NUM_RETRIES]]
                 /\ UNCHANGED configVars
     /\ UNCHANGED <<now, caller, memcache, worker, outsideMain>>

\* RegisterOnline on an activity whose only rule is the max_people rule
RegisterOnline(c, user, force_status) ==
  RegisterOnlineWith(c, user, force_status, <<>>)

\* _Incr: memcache.incr(key); the rule's verdict when the key is cached,
\* else the counter is to be regenerated.
IncrOnline(c) ==
  LET me == client[c]
      ns == memcache["online"]
      verdict == EvaluateEnroll(ns.counter + 1)
  IN /\ me.pc = "incr"
     /\ IF ns.counter # Missing
          THEN /\ memcache' = [memcache EXCEPT !["online"] = MemcacheIncr(ns)]
               /\ client' = [client EXCEPT ![c] =
                     [me EXCEPT !.pc = "final", !.status = verdict.status,
                                !.resource_remaining = verdict.resource_remaining]]
          ELSE /\ client' = [client EXCEPT ![c] = [me EXCEPT !.pc = "build"]]
               /\ UNCHANGED memcache
     /\ UNCHANGED <<lockLayerVars, datastoreVars, worker, outsideMain>>

\* _Get: memcache.get(key); regenerates once when the key is not cached
GetOnline(c) ==
  LET me == client[c]
      ns == memcache["online"]
      verdict == EvaluateOther(UNREGISTERED, ns.counter)
  IN /\ me.pc = "get"
     /\ IF ns.counter = Missing /\ me.retries # 0
          THEN client' = [client EXCEPT ![c] = [me EXCEPT !.pc = "build"]]
          ELSE client' = [client EXCEPT ![c] =
                  [me EXCEPT !.pc = "final", !.status = verdict.status,
                             !.resource_remaining = verdict.resource_remaining]]
     /\ UNCHANGED <<lockLayerVars, datastoreVars, memcache, worker, outsideMain>>

\* _Regenerate, first half: context = self._BuildContext(), and online
\* context[key] = value - 1 with assert value > 0
BuildContextOnline(c) ==
  LET me == client[c]
      value == BuildContext(registrations, FALSE)
  IN /\ me.pc = "build"
     /\ IF value > 0
          THEN /\ client' = [client EXCEPT ![c] =
                     [me EXCEPT !.pc = "add",
                                !.context = RegenerateValue(registrations, FALSE)]]
               /\ UNCHANGED locks
          ELSE /\ client' = [client EXCEPT ![c] = Done(me, "AssertionError", 0)]
               /\ locks' = [locks EXCEPT ![RegistrationLock(me.user)] =
                               ReleaseLock(@, Acquired)]
     /\ UNCHANGED <<now, caller, datastoreVars, memcache, worker, outsideMain>>

\* _Regenerate, second half: memcache.add_multi(context) and
\* memcache.add('__init__'); then _Incr retries or raises AppengineError,
\* _Get reads again.
AddOnline(c) ==
  LET me == client[c]
  IN /\ me.pc = "add"
     /\ memcache' = [memcache EXCEPT
                        !["online"] = MemcacheAdd(@, me.context)]
     /\ IF me.op = "register" /\ me.retries = 0
          THEN /\ client' = [client EXCEPT ![c] = Done(me, "AppengineError", 0)]
               /\ locks' = [locks EXCEPT ![RegistrationLock(me.user)] =
                               ReleaseLock(@, Acquired)]
          ELSE /\ client' = [client EXCEPT ![c] =
                     [me EXCEPT !.pc = IF me.op = "register" THEN "incr" ELSE "get",
                                !.retries = me.retries - 1, !.context = 0]]
               /\ UNCHANGED locks
     /\ UNCHANGED <<now, caller, datastoreVars, worker, outsideMain>>

\* _RegisterOnlineUnsafe, after the rules were evaluated: _RulesNotify, the
\* put of the entry as READY and ACTIVE (its delete when denied), and the
\* release of the lock.
RegisterFinal(c) ==
  LET me == client[c]
      result == RulesEvaluate(None, ENROLLED, me.force_status,
                              <<me.status>> \o me.others)
      final_status == result.final_status
      a_rule_tags == AffectingRuleTags(me.status, final_status, me.force_status)
  IN /\ me.pc = "final" /\ me.op = "register"
     /\ memcache' = [memcache EXCEPT
           !["online"] = ProcessOnlineOutcome(@, me.status, final_status)]
     /\ registrations' = [registrations EXCEPT ![me.reg] =
           FinalEntry(ProvisionalEntry(me.user, me.force_status), final_status,
                      a_rule_tags)]
     /\ locks' = [locks EXCEPT ![RegistrationLock(me.user)] =
                     ReleaseLock(@, Acquired)]
     /\ client' = [client EXCEPT ![c] =
           Done(me, final_status, me.resource_remaining)]
     /\ UNCHANGED <<now, caller, created, configVars, worker, outsideMain>>

\* UnregisterOnline(eval_context): AcquireLock succeeds and
\* _UnregisterOnlineUnsafe starts with the query for the active
\* registration; nothing to unregister from when there is none. others are
\* the verdicts of the rules enumerated after the max_people rule.
UnregisterOnlineWith(c, user, others) ==
  LET me == [Called("unregister", user, FALSE) EXCEPT !.others = others]
      name == RegistrationLock(user)
      active_list == ActiveQuery(registrations, user)
  IN /\ client[c].pc = "idle"
     /\ CanAcquire(name)
     /\ IF Cardinality(active_list) > 1
          THEN /\ client' = [client EXCEPT ![c] = Done(me, "AssertionError", 0)]
               /\ UNCHANGED locks
          ELSE IF active_list = {}
            THEN /\ client' = [client EXCEPT ![c] = Done(me, UNREGISTERED, 0)]
                 /\ UNCHANGED locks
            ELSE /\ created < MaxStormRegs
                 /\ locks' = [locks EXCEPT ![name] = Acquired]
                 /\ client' = [client EXCEPT ![c] =
                       [me EXCEPT !.pc = "get", !.retries = NUM_RETRIES,
                                  !.reg = CHOOSE k \in active_list : TRUE]]
     /\ UNCHANGED <<now, caller, datastoreVars, memcache, worker, outsideMain>>

\* UnregisterOnline on an activity whose only rule is the max_people rule
UnregisterOnline(c, user) == UnregisterOnlineWith(c, user, <<>>)

\* _UnregisterOnlineUnsafe, after the rules were evaluated: the transaction
\* InitiateUnregister (an UNREGISTERED, READY, INACTIVE child entry; the
\* active registration made INACTIVE) and the release of the lock.
UnregisterFinal(c) ==
  LET me == client[c]
      active_registration == registrations[me.reg]
      result == RulesEvaluate(active_registration.status, UNREGISTERED,
                              me.force_status, <<me.status>> \o me.others)
      a_rule_tags == AffectingRuleTags(me.status, result.final_status,
                                       me.force_status)
  IN /\ me.pc = "final" /\ me.op = "unregister"
     /\ IF ~result.raised /\ result.final_status = UNREGISTERED
          THEN /\ created < MaxRegs
               /\ created' = created + 1
               /\ registrations' = InitiateUnregister(registrations, created + 1,
                                                      me.reg, a_rule_tags)
          ELSE UNCHANGED <<created, registrations>>
     /\ locks' = [locks EXCEPT ![RegistrationLock(me.user)] =
                     ReleaseLock(@, Acquired)]
     /\ client' = [client EXCEPT ![c] =
           Done(me, IF result.raised THEN "BadStateTransition"
                    ELSE result.final_status, me.resource_remaining)]
     /\ UNCHANGED <<now, caller, configVars, memcache, worker, outsideMain>>

\* The answer has reached the caller; the client may call again.
Return(c) ==
  /\ client[c].pc = "done"
  /\ client' = [client EXCEPT ![c] = IdleClient]
  /\ UNCHANGED <<lockLayerVars, datastoreVars, memcache, worker, outsideMain>>

\* ---------------------------------------------------------------------
\* Offline path: core/rule_engine.py, ProcessOfflineTask
\* ---------------------------------------------------------------------
Workers == 1..NumWorkers

IdleWorker ==
  [pc |-> "idle", stage |-> None, rec |-> 0, tags |-> {}, bucket |-> {},
   registrations |-> {}, waiting |-> NoReg, performed |-> FALSE,
   more_processing |-> FALSE, enqueued |-> FALSE]

\* The first items of a stored list, whose order is that of a joined set.
Buckets(items, batch) ==
  {b \in SUBSET items :
      Cardinality(b) = IF Cardinality(items) < batch THEN Cardinality(items)
                       ELSE batch}

\* ProcessOfflineTask(): the invocation waits for the offline lock
ProcessOfflineTask(w) ==
  /\ worker[w].pc = "idle"
  /\ worker' = [worker EXCEPT ![w] = [IdleWorker EXCEPT !.pc = "lock"]]
  /\ UNCHANGED <<lockLayerVars, datastoreVars, memcache, client, outsideMain>>

\* AcquireLock succeeds: ProcessOfflineUnsafe starts with the unregistrations
ProcessOfflineUnsafe(w) ==
  /\ worker[w].pc = "lock"
  /\ CanAcquire(OfflineLock)
  /\ locks' = [locks EXCEPT ![OfflineLock] = Acquired]
  /\ worker' = [worker EXCEPT ![w] =
        [IdleWorker EXCEPT !.pc = "fetch", !.stage = UNREGISTERED]]
  /\ UNCHANGED <<now, caller, datastoreVars, memcache, client, outsideMain>>

\* _FetchAndProcessOffline(run_function, status): the query for the next
\* READY registration of the status; without one the next stage follows.
FetchAndProcessOffline(w) ==
  LET me == worker[w]
      record == NextReady(registrations, me.stage)
  IN /\ me.pc = "fetch"
     /\ worker' = [worker EXCEPT ![w] =
           IF record # 0 THEN [me EXCEPT !.pc = "record", !.rec = record]
           ELSE IF me.stage = UNREGISTERED THEN [me EXCEPT !.stage = ENROLLED]
           ELSE IF me.stage = ENROLLED THEN [me EXCEPT !.pc = "ready"]
           ELSE [me EXCEPT !.pc = "end"]]
     /\ UNCHANGED <<lockLayerVars, datastoreVars, memcache, client, outsideMain>>

\* ProcessFetchedRecord under the activity lock and the registration lock:
\* the record is read again and, if still READY with the status, the
\* checkpointed handler runs. A run that is cut short after the rules
\* were evaluated leaves 'offline_run_in_progress' behind, and the task
\* queue runs the failed task again. _FetchAndProcessOffline returns True.
ProcessFetchedRecord(w, cut_short) ==
  LET me == worker[w]
      check_changed == registrations[me.rec]
      namespace == CheckPointedNamespace(memcache["offline"], run_in_progress)
  IN /\ me.pc = "record"
     /\ CanAcquire(ActivityLock)
     /\ CanAcquire(RegistrationLock(check_changed.user))
     /\ ProcessedEnroll(Store, me.rec) => CanAcquire(ReprocessTagsLock)
     /\ IF ~(check_changed.exists /\ check_changed.status = me.stage
               /\ check_changed.confirmed = READY)
          THEN /\ ~cut_short
               /\ UNCHANGED <<registrations, created, memcache,
                              reprocess_tags, run_in_progress>>
          ELSE IF cut_short
            THEN /\ memcache' = [memcache EXCEPT !["offline"] =
                        EvaluateOffline(Store, me.rec, namespace)]
                 /\ run_in_progress' = TRUE
                 /\ UNCHANGED <<registrations, created, reprocess_tags>>
            ELSE /\ Becomes(RunFunction(Store, me.rec, namespace))
                 /\ run_in_progress' = FALSE
     /\ worker' = [worker EXCEPT ![w] =
           [IdleWorker EXCEPT !.pc = "end", !.more_processing = TRUE]]
     /\ UNCHANGED <<lockLayerVars, waitlist_reprocess, client, outsideMain>>

\* The query of phase 1: the registrations waiting on one of the tags
WaitingForTags(regs, tags_bucket) ==
  {k \in RegIds : /\ regs[k].exists
                  /\ regs[k].affecting_rule_tags \cap tags_bucket # {}
                  /\ regs[k].confirmed = PROCESSED
                  /\ regs[k].status = WAITLISTED
                  /\ regs[k].active = ACTIVE}

\* _ReadyRegistrationsInWaiting: the lock of the tags entity is acquired and
\* the tags to reprocess are read.
ReadyRegistrationsInWaiting(w) ==
  /\ worker[w].pc = "ready"
  /\ CanAcquire(ReprocessTagsLock)
  /\ locks' = [locks EXCEPT ![ReprocessTagsLock] = Acquired]
  /\ worker' = [worker EXCEPT ![w] =
        [IdleWorker EXCEPT !.pc = "query", !.tags = reprocess_tags]]
  /\ UNCHANGED <<now, caller, datastoreVars, memcache, client, outsideMain>>

\* Phase 1, one batch of tags: the matching registrations join the stored
\* list of registrations to make ready.
QueryTagsBucket(w) ==
  LET me == worker[w]
  IN /\ me.pc = "query" /\ me.tags # {}
     /\ \E tags_bucket \in Buckets(me.tags, QUERY_BATCH) :
          LET new_registrations == WaitingForTags(registrations, tags_bucket)
          IN /\ waitlist_reprocess' = new_registrations \cup waitlist_reprocess
             /\ worker' = [worker EXCEPT ![w] =
                   [me EXCEPT !.pc = "tags", !.bucket = tags_bucket]]
     /\ UNCHANGED <<lockLayerVars, registrations, created, reprocess_tags,
                    run_in_progress, memcache, client, outsideMain>>

\* Phase 1, end of a batch: the tags queried are removed from the stored tags.
PutTags(w) ==
  LET me == worker[w]
  IN /\ me.pc = "tags"
     /\ reprocess_tags' = me.tags \ me.bucket
     /\ worker' = [worker EXCEPT ![w] =
           [me EXCEPT !.pc = "query", !.tags = me.tags \ me.bucket,
                      !.bucket = {}, !.performed = TRUE]]
     /\ UNCHANGED <<lockLayerVars, registrations, created, waitlist_reprocess,
                    run_in_progress, memcache, client, outsideMain>>

\* Where phase 2 goes with a bucket of keys: to the next key, or to the end.
AfterBucket(me, registrations_bucket, remaining) ==
  [me EXCEPT !.pc = IF registrations_bucket = {} THEN "ready_end" ELSE "waiting",
             !.bucket = registrations_bucket,
             !.registrations = remaining \ registrations_bucket,
             !.waiting = NoReg, !.rec = 0]

\* Phase 2 starts: the stored list of registrations is read.
ReadRegistrations(w) ==
  LET me == worker[w]
  IN /\ me.pc = "query" /\ me.tags = {}
     /\ \E registrations_bucket \in Buckets(waitlist_reprocess, WRITE_BATCH) :
          worker' = [worker EXCEPT ![w] =
             AfterBucket(me, registrations_bucket, waitlist_reprocess)]
     /\ UNCHANGED <<lockLayerVars, datastoreVars, memcache, client, outsideMain>>

\* Where phase 2 goes after a key of the bucket.
AfterKey(me, key) ==
  [me EXCEPT !.pc = IF me.bucket = {key} THEN "checkpoint" ELSE "waiting",
             !.bucket = me.bucket \ {key}, !.waiting = NoReg, !.rec = 0]

\* Phase 2, one key: waiting = db.get(key), before the registration lock
GetWaiting(w) ==
  LET me == worker[w]
  IN /\ me.pc = "waiting"
     /\ \E key \in me.bucket :
          worker' = [worker EXCEPT ![w] =
             IF registrations[key].exists
               THEN [me EXCEPT !.pc = "make_ready", !.rec = key,
                               !.waiting = registrations[key]]
               ELSE AfterKey(me, key)]
     /\ UNCHANGED <<lockLayerVars, datastoreVars, memcache, client, outsideMain>>

\* A MakeWaitingReady that puts nothing.
MakeWaitingReadySkip(register, stored) == stored

\* MakeWaitingReady(register): the entity it puts, if any
MakeWaitingReadyPut(register, stored) ==
  IF /\ register.status = WAITLISTED
     /\ register.confirmed = PROCESSED
     /\ register.active = ACTIVE
    THEN [register EXCEPT !.confirmed = READY]
    ELSE stored

\* Phase 2, one key: MakeWaitingReady(waiting) under the registration lock
MakeWaitingReady(w) ==
  LET me == worker[w]
  IN /\ me.pc = "make_ready"
     /\ CanAcquire(RegistrationLock(me.waiting.user))
     /\ registrations' = [registrations EXCEPT ![me.rec] =
           MakeWaitingReadyPut(me.waiting, @)]
     /\ worker' = [worker EXCEPT ![w] = AfterKey(me, me.rec)]
     /\ UNCHANGED <<lockLayerVars, created, configVars, memcache, client,
                    outsideMain>>

\* Phase 2, end of a batch: the keys of the batch are removed from the
\* stored list.
CheckpointRegistrations(w) ==
  LET me == worker[w]
  IN /\ me.pc = "checkpoint"
     /\ waitlist_reprocess' = me.registrations
     /\ \E registrations_bucket \in Buckets(me.registrations, WRITE_BATCH) :
          worker' = [worker EXCEPT ![w] =
             [AfterBucket(me, registrations_bucket, me.registrations)
                EXCEPT !.performed = TRUE]]
     /\ UNCHANGED <<lockLayerVars, registrations, created, reprocess_tags,
                    run_in_progress, memcache, client, outsideMain>>

\* _ReadyRegistrationsInWaiting returns: ProcessOfflineUnsafe returns True
\* when something was done, else goes on with the waitlisted registrations.
ReadyEnd(w) ==
  LET me == worker[w]
  IN /\ me.pc = "ready_end"
     /\ locks' = [locks EXCEPT ![ReprocessTagsLock] = ReleaseLock(@, Acquired)]
     /\ worker' = [worker EXCEPT ![w] =
           IF me.performed
             THEN [IdleWorker EXCEPT !.pc = "end", !.more_processing = TRUE]
           ELSE [IdleWorker EXCEPT !.pc = "fetch", !.stage = WAITLISTED]]
     /\ UNCHANGED <<now, caller, datastoreVars, memcache, client, outsideMain>>

\* An offline task that enqueues nothing.
EnqueueProcessingNever(more_processing) == FALSE

\* ProcessOfflineTaskUnsafe: if more_processing: _EnqueueProcessing(); a
\* task is in the queue afterwards.
EnqueueProcessing(more_processing) == more_processing

\* ProcessOfflineTaskUnsafe returns and RunSynchronous releases the lock.
EndOfflineTask(w) ==
  /\ worker[w].pc = "end"
  /\ locks' = [locks EXCEPT ![OfflineLock] = ReleaseLock(@, Acquired)]
  /\ worker' = [worker EXCEPT ![w] =
        [IdleWorker EXCEPT
           !.enqueued = EnqueueProcessing(worker[w].more_processing)]]
  /\ UNCHANGED <<now, caller, datastoreVars, memcache, client, outsideMain>>

\* w is inside _ReadyRegistrationsInWaitingUnsafe, under the tags lock
InReadyRegistrations(w) ==
  worker[w].pc \in {"query", "tags", "waiting", "make_ready", "checkpoint",
                    "ready_end"}

\* _ReadyRegistrationsInWaiting() is invoked (again)
InvokeReadyRegistrationsInWaiting(w) ==
  /\ worker[w].pc \in {"idle", "dead", "end", "fetch"}
  /\ worker' = [worker EXCEPT ![w] = [IdleWorker EXCEPT !.pc = "ready"]]
  /\ UNCHANGED <<lockLayerVars, datastoreVars, memcache, client, outsideMain>>

\* The invocation is killed inside _ReadyRegistrationsInWaitingUnsafe:
\* nothing more runs, the tags lock stays until it expires.
KillWorker(w) ==
  /\ InReadyRegistrations(w)
  /\ locks[ReprocessTagsLock].expire_time < MaxTime
  /\ worker' = [worker EXCEPT ![w] = [@ EXCEPT !.pc = "dead"]]
  /\ UNCHANGED <<lockLayerVars, datastoreVars, memcache, client, outsideMain>>


\* ---------------------------------------------------------------------
\* Lock layer: callers of RunSynchronous(run_func)
\* ---------------------------------------------------------------------
Callers == 1..NumCallers

IdleCaller ==
  [pc |-> "idle", name |-> "A:activity", try_count |-> 0, trials |-> 0,
   acquired |-> NoLock, ran |-> FALSE, result |-> "none"]

Alive(p) == caller[p].pc \in {"acquire", "run", "finally"}

\* p is between a successful AcquireLock and its ReleaseLock
Holding(p) == caller[p].pc \in {"run", "finally"} /\ caller[p].acquired.present

\* lock = DbLock(name, try_count); lock.RunSynchronous(run_func)
RunSynchronous(p, name, try_count) ==
  /\ caller[p].pc = "idle"
  /\ caller' = [caller EXCEPT ![p] =
        [IdleCaller EXCEPT !.pc = "acquire", !.name = name,
                           !.try_count = try_count]]
  /\ UNCHANGED <<lockVars, outsideLockLayer>>

\* One pass of AcquireLock's loop: db.run_in_transaction(TryLock), then
\* time.sleep() when nothing was acquired. failed: TransactionFailedError.
\* trials is read only when try_count > 0, and is counted only then.
AcquireLock(p, failed) ==
  LET c == caller[p]
      got == IF failed THEN NoLock ELSE TryLock(locks[c.name], now)
  IN /\ c.pc = "acquire"
     /\ MayTry(c.try_count, c.trials, c.acquired)
     /\ locks' = IF got.present THEN [locks EXCEPT ![c.name] = got] ELSE locks
     /\ caller' = [caller EXCEPT ![p] =
           [c EXCEPT !.trials = IF c.try_count = 0 THEN 0 ELSE c.trials + 1,
                     !.acquired = got,
                     !.pc = IF got.present THEN "run" ELSE "acquire"]]
     /\ UNCHANGED <<now, outsideLockLayer>>

\* raise errors.LockAcquireFailure: run_func is skipped, finally runs
AcquireFailure(p) ==
  LET c == caller[p]
  IN /\ c.pc = "acquire"
     /\ ~MayTry(c.try_count, c.trials, c.acquired)
     /\ caller' = [caller EXCEPT ![p] =
           [c EXCEPT !.pc = "finally", !.result = "LockAcquireFailure"]]
     /\ UNCHANGED <<lockVars, outsideLockLayer>>

\* return run_func(*args, **kwargs): it returns (raises = FALSE) or raises
RunFunc(p, raises) ==
  LET c == caller[p]
  IN /\ c.pc = "run"
     /\ caller' = [caller EXCEPT ![p] =
           [c EXCEPT !.pc = "finally", !.ran = TRUE,
                     !.result = IF raises THEN "raised" ELSE "returned"]]
     /\ UNCHANGED <<lockVars, outsideLockLayer>>

\* finally: self.ReleaseLock()
Finally(p) ==
  LET c == caller[p]
  IN /\ c.pc = "finally"
     /\ locks' = [locks EXCEPT ![c.name] = ReleaseLock(@, c.acquired)]
     /\ caller' = [caller EXCEPT ![p] = [c EXCEPT !.pc = "done"]]
     /\ UNCHANGED <<now, outsideLockLayer>>

\* The request of a caller is killed: nothing more runs, nothing is released.
Kill(p) ==
  /\ Alive(p)
  /\ caller' = [caller EXCEPT ![p] = [IdleCaller EXCEPT !.pc = "dead"]]
  /\ UNCHANGED <<lockVars, outsideLockLayer>>

\* Time passes. A request that holds a lock ends (or is killed) before the
\* lock's expire time: the 31 s expiry exceeds the lifetime of a request.
HoldersInTime(t) ==
  /\ \A p \in Callers : Holding(p) => caller[p].acquired.expire_time >= t
  /\ \A w \in Workers :
        InReadyRegistrations(w) => locks[ReprocessTagsLock].expire_time >= t

Tick ==
  /\ now < MaxTime
  /\ HoldersInTime(now + 1)
  /\ now' = now + 1
  /\ UNCHANGED <<locks, caller, outsideLockLayer>>

\* ---------------------------------------------------------------------
\* Specifications
\* ---------------------------------------------------------------------
LockIdle ==
  /\ now = 0
  /\ locks = [n \in LockNames |-> NoLock]
  /\ caller = [p \in Callers |-> IdleCaller]

EvalIdle == evalIn = <<>> /\ evalOut = NotEvaluated

MainIdle ==
  /\ registrations = [k \in RegIds |-> NoReg]
  /\ created = 0
  /\ reprocess_tags = {}
  /\ waitlist_reprocess = {}
  /\ run_in_progress = FALSE
  /\ memcache = [n \in Namespaces |-> EmptyNamespace]
  /\ client = [c \in Clients |-> IdleClient]
  /\ worker = [w \in Workers |-> IdleWorker]
  /\ max_people = MaxPeople
  /\ unbroken = EmptyStore

EvalInit ==
  /\ LockIdle
  /\ MainIdle
  /\ evalIn \in [initial_status : Statuses, target_status : Statuses,
                 force_status : BOOLEAN, verdicts : VerdictLists]
  /\ evalOut = NotEvaluated

EvalCall ==
  /\ ~evalOut.done
  /\ LET r == RulesEvaluate(evalIn.initial_status, evalIn.target_status,
                            evalIn.force_status, evalIn.verdicts)
     IN evalOut' = [done |-> TRUE, raised |-> r.raised, ran |-> r.ran,
                    final_status |-> r.final_status, combined |-> r.combined]
  /\ UNCHANGED <<evalIn, outsideEval>>

LockInit == LockIdle /\ EvalIdle /\ MainIdle

LockNext ==
  \/ \E p \in Callers, n \in CallerLockNames, tc \in {0, MaxTries} :
        RunSynchronous(p, n, tc)
  \/ \E p \in Callers, failed \in BOOLEAN : AcquireLock(p, failed)
  \/ \E p \in Callers : AcquireFailure(p)
  \/ \E p \in Callers, raises \in BOOLEAN : RunFunc(p, raises)
  \/ \E p \in Callers : Finally(p)
  \/ \E p \in Callers : Kill(p)
  \/ Tick

SpecLock == LockInit /\ [][LockNext]_vars

\* The clock advances, and a caller whose TryLock can acquire runs it: the
\* loop of AcquireLock sleeps and tries again for as long as it lives.
FairSpecLock ==
  /\ SpecLock
  /\ WF_vars(Tick)
  /\ \A p \in Callers : WF_vars(AcquireLock(p, FALSE))

EvalNext == EvalCall

Init == LockIdle /\ EvalIdle /\ MainIdle

\* The requests race with one invocation of the offline task.
MainWorkers == {1}

WorkerNext(w) ==
  \/ ProcessOfflineTask(w)
  \/ ProcessOfflineUnsafe(w)
  \/ FetchAndProcessOffline(w)
  \/ \E cut_short \in BOOLEAN : ProcessFetchedRecord(w, cut_short)
  \/ ReadyRegistrationsInWaiting(w)
  \/ QueryTagsBucket(w)
  \/ PutTags(w)
  \/ ReadRegistrations(w)
  \/ GetWaiting(w)
  \/ MakeWaitingReady(w)
  \/ CheckpointRegistrations(w)
  \/ ReadyEnd(w)
  \/ EndOfflineTask(w)

Next ==
  \/ \E user \in Users, force_status \in BOOLEAN :
        RegisterOnlineRequest(user, force_status)
  \/ \E user \in Users : UnregisterOnlineRequest(user)
  \/ \E w \in MainWorkers : WorkerNext(w)
  \/ \E namespace \in Namespaces : Flush(namespace)
  \/ ReprocessRegistrations

Spec == Init /\ [][Next]_vars

\* Concurrent requests on an activity without registrations.
StormInit == LockIdle /\ EvalIdle /\ MainIdle

ClientNext(c) ==
  \/ \E user \in Users, force_status \in BOOLEAN :
        RegisterOnline(c, user, force_status)
  \/ \E user \in Users : UnregisterOnline(c, user)
  \/ IncrOnline(c)
  \/ GetOnline(c)
  \/ BuildContextOnline(c)
  \/ AddOnline(c)
  \/ RegisterFinal(c)
  \/ UnregisterFinal(c)
  \/ Return(c)

StormNext ==
  \/ \E c \in Clients : ClientNext(c)
  \/ \E namespace \in Namespaces : Flush(namespace)

SpecStorm == StormInit /\ [][StormNext]_vars

\* Concurrent requests on an activity with a max_people rule followed by
\* another registration rule, whose verdict is an input of the request.
RegisterVerdicts == {<<ENROLLED>>, <<WAITLISTED>>, <<None>>}

UnregisterVerdicts == {<<UNREGISTERED>>, <<ENROLLED>>, <<WAITLISTED>>}

RulesInit == LockIdle /\ EvalIdle /\ MainIdle

RulesClientNext(c) ==
  \/ \E user \in Users, others \in RegisterVerdicts :
        RegisterOnlineWith(c, user, FALSE, others)
  \/ \E user \in Users, others \in UnregisterVerdicts :
        UnregisterOnlineWith(c, user, others)
  \/ IncrOnline(c)
  \/ GetOnline(c)
  \/ BuildContextOnline(c)
  \/ AddOnline(c)
  \/ RegisterFinal(c)
  \/ UnregisterFinal(c)
  \/ Return(c)

RulesNext ==
  \/ \E c \in Clients : RulesClientNext(c)
  \/ \E namespace \in Namespaces : Flush(namespace)

SpecRules == RulesInit /\ [][RulesNext]_vars

\* Requests one after the other, with previews of the outcome in between.
CallsInit == LockIdle /\ EvalIdle /\ MainIdle

CallsNext ==
  \/ \E user \in Users, force_status \in BOOLEAN, others \in RegisterVerdicts :
        RegisterOnlineRequestWith(user, force_status, others)
  \/ \E user \in Users : UnregisterOnlineRequest(user)
  \/ \E force_status \in BOOLEAN, others \in RegisterVerdicts :
        PredictRegistrationOutcomeRequest(force_status, others)
  \/ \E namespace \in Namespaces : Flush(namespace)

SpecCalls == CallsInit /\ [][CallsNext]_vars

\* The max_people rule of an activity is changed while registrations are
\* made and processed offline.
NewMaxPeople == 0..(MaxPeople + 1)

UpdateInit == LockIdle /\ EvalIdle /\ MainIdle

UpdateNext ==
  \/ \E user \in Users : RegisterOnlineRequest(user, FALSE)
  \/ \E w \in MainWorkers : WorkerNext(w)
  \/ \E new_max_people \in NewMaxPeople :
        UpdateProgramOrActivityRules(new_max_people)

SpecUpdate == UpdateInit /\ [][UpdateNext]_vars

\* The same operations with and without losing the cache.
RebuildInit == LockIdle /\ EvalIdle /\ MainIdle

RebuildNext ==
  \/ \E user \in Users, force_status \in BOOLEAN :
        BothRegisterOnline(user, force_status)
  \/ \E user \in Users : BothUnregisterOnline(user)
  \/ \E status \in {UNREGISTERED, ENROLLED, WAITLISTED} :
        BothProcessOffline(status)
  \/ \E namespace \in Namespaces : Flush(namespace)

SpecRebuild == RebuildInit /\ [][RebuildNext]_vars

\* Two registrations race for the slots of an activity without
\* registrations; the cache is not flushed meanwhile.
RaceInit == LockIdle /\ EvalIdle /\ MainIdle

RaceNext ==
  \/ \E c \in Clients, user \in Users, force_status \in BOOLEAN :
        RegisterOnline(c, user, force_status)
  \/ \E c \in Clients : IncrOnline(c)
  \/ \E c \in Clients : BuildContextOnline(c)
  \/ \E c \in Clients : AddOnline(c)
  \/ \E c \in Clients : RegisterFinal(c)

SpecRace == RaceInit /\ [][RaceNext]_vars

\* Registrations of two users as the requests and the offline task leave
\* them: queued (READY) or PROCESSED, enrolled or waitlisted by the
\* max_people rule (all tags) or waitlisted by another rule (the program
\* and activity tags only).
SettledRegistrations(user) ==
  {NoReg,
   UserRegistration(user, FALSE, ENROLLED, READY, ACTIVE, 0, Tags),
   UserRegistration(user, FALSE, WAITLISTED, READY, ACTIVE, 0, Tags),
   UserRegistration(user, FALSE, ENROLLED, PROCESSED, ACTIVE, 0, Tags),
   UserRegistration(user, FALSE, WAITLISTED, PROCESSED, ACTIVE, 0, Tags),
   UserRegistration(user, FALSE, WAITLISTED, PROCESSED, ACTIVE, 0,
                    rule_engine_tags)}

SettledInit ==
  /\ LockIdle
  /\ EvalIdle
  /\ \E a \in SettledRegistrations("A"), b \in SettledRegistrations("B") :
        registrations = [k \in RegIds |-> IF k = 1 THEN a
                                          ELSE IF k = 2 THEN b ELSE NoReg]
  /\ created = 2
  /\ reprocess_tags \in SUBSET Tags
  /\ waitlist_reprocess = {}
  /\ run_in_progress = FALSE
  /\ memcache = [n \in Namespaces |-> EmptyNamespace]
  /\ client = [c \in Clients |-> IdleClient]
  /\ worker = [w \in Workers |-> IdleWorker]
  /\ max_people = MaxPeople
  /\ unbroken = EmptyStore

\* Invocations of the offline task race with each other.
OfflineInit == SettledInit

OfflineNext == \E w \in Workers : WorkerNext(w)

SpecOffline == OfflineInit /\ [][OfflineNext]_vars

\* An invocation that retries AcquireLock while the lock is free again and
\* again acquires it; every other step of an invocation is taken.
FairSpecOffline ==
  /\ SpecOffline
  /\ \A w \in Workers : WF_vars(WorkerNext(w))
  /\ \A w \in Workers : SF_vars(ProcessOfflineUnsafe(w))

\* The offline task is invoked again and again, one invocation after the
\* other, on registrations the requests have left, one of them possibly
\* unregistered online; no request arrives any more.
ReconcileInit ==
  /\ LockIdle
  /\ EvalIdle
  /\ \E a \in SettledRegistrations("A"), b \in SettledRegistrations("B"),
        unregistered \in BOOLEAN :
        LET settled == [k \in RegIds |-> IF k = 1 THEN a
                                         ELSE IF k = 2 THEN b ELSE NoReg]
        IN IF unregistered
             THEN /\ a.exists
                  /\ registrations = InitiateUnregister(settled, 3, 1, Tags)
                  /\ created = 3
             ELSE /\ registrations = settled
                  /\ created = 2
  /\ reprocess_tags \in SUBSET Tags
  /\ waitlist_reprocess = {}
  /\ run_in_progress = FALSE
  /\ memcache = [n \in Namespaces |-> EmptyNamespace]
  /\ client = [c \in Clients |-> IdleClient]
  /\ worker = [w \in Workers |-> IdleWorker]
  /\ max_people = MaxPeople
  /\ unbroken = EmptyStore

ReconcileNext == \E w \in MainWorkers : WorkerNext(w)

SpecReconcile == ReconcileInit /\ [][ReconcileNext]_vars

\* The task is invoked again and again and every step of an invocation is
\* taken; the run of a record is not cut short every time.
FairSpecReconcile ==
  /\ SpecReconcile
  /\ \A w \in MainWorkers : WF_vars(WorkerNext(w))
  /\ \A w \in MainWorkers : SF_vars(ProcessFetchedRecord(w, FALSE))

\* _ReadyRegistrationsInWaiting is invoked, killed and invoked again.
ReadyInit == SettledInit

ReadyStep(w) ==
  \/ InvokeReadyRegistrationsInWaiting(w)
  \/ ReadyRegistrationsInWaiting(w)
  \/ QueryTagsBucket(w)
  \/ PutTags(w)
  \/ ReadRegistrations(w)
  \/ GetWaiting(w)
  \/ MakeWaitingReady(w)
  \/ CheckpointRegistrations(w)
  \/ ReadyEnd(w)

ReadyNext ==
  \/ \E w \in Workers : ReadyStep(w)
  \/ \E w \in Workers : KillWorker(w)
  \/ Tick

SpecReady == ReadyInit /\ [][ReadyNext]_vars

\* An invocation that is not killed takes its next step, time passes, and
\* _ReadyRegistrationsInWaiting is invoked again.
FairSpecReady ==
  /\ SpecReady
  /\ \A w \in Workers : WF_vars(ReadyStep(w))
  /\ WF_vars(Tick)

SpecEval == EvalInit /\ [][EvalNext]_vars

\* _RulesEvaluate is called for an eval_context with any rules of the
\* program and of the activity and any list of access points (also one
\* listed twice); answers is what each rule answers when asked.
AccessPointLists == UNION {[1..n -> AccessPoints] : n \in 0..MaxRules}

EvalContexts ==
  [initial_status : Statuses, target_status : {ENROLLED, UNREGISTERED},
   force_status : BOOLEAN,
   program_rules : {<<>>, <<"program_rule">>},
   activity_rules : {<<>>, <<"activity_rule">>},
   access_point_list : AccessPointLists,
   answers : [RuleNames -> Statuses]]

GenerateInit ==
  /\ LockIdle
  /\ MainIdle
  /\ evalIn \in EvalContexts
  /\ evalOut = NotEvaluated

\* _RulesEvaluate(eval_context, initial_status, target_status, is_online);
\* evaluated are the rule configs whose rule was asked.
RulesEvaluateCall ==
  LET iter_rules == RuleGenerator(evalIn.program_rules, evalIn.activity_rules,
                                  evalIn.access_point_list)
      verdicts == [i \in 1..Len(iter_rules) |-> evalIn.answers[iter_rules[i]]]
      r == RulesEvaluate(evalIn.initial_status, evalIn.target_status,
                         evalIn.force_status, verdicts)
      all_rule_configs == {iter_rules[i] : i \in 1..r.ran}
      affecting_rule_configs ==
         AffectingRuleConfigs(evalIn.force_status, r.combined,
                              all_rule_configs, evalIn.answers)
  IN /\ ~evalOut.done
     /\ evalOut' = [done |-> TRUE, raised |-> r.raised, ran |-> r.ran,
                    final_status |-> r.final_status, combined |-> r.combined,
                    evaluated |-> SubSeq(iter_rules, 1, r.ran),
                    all_rule_tags |-> AllRuleTags(all_rule_configs),
                    affecting_rule_configs |-> affecting_rule_configs,
                    affecting_rule_tags |-> AllRuleTags(affecting_rule_configs)]
     /\ UNCHANGED <<evalIn, outsideEval>>

GenerateNext == RulesEvaluateCall

SpecGenerate == GenerateInit /\ [][GenerateNext]_vars

\* A max_people rule is asked about a transition to ENROLLED, online for
\* the request of A, whose provisional entry is stored, or offline for the
\* registration of B, which is READY; its counters are cached with any
\* value or not cached, and its capacity is any.
Capacities == 0..(MaxPeople + 1)

CachedNamespaces ==
  {EmptyNamespace} \cup {[counter |-> n, init |-> TRUE] : n \in 0..MaxRegs}

EvaluateInit ==
  /\ LockIdle
  /\ EvalIdle
  /\ registrations =
        [k \in RegIds |->
           IF k = 1 THEN UserRegistration("B", FALSE, ENROLLED, READY, ACTIVE,
                                          0, Tags)
           ELSE IF k = 2 THEN ProvisionalEntry("A", FALSE) ELSE NoReg]
  /\ created = 2
  /\ reprocess_tags = {}
  /\ waitlist_reprocess = {}
  /\ run_in_progress = FALSE
  /\ memcache \in [Namespaces -> CachedNamespaces]
  /\ client = [c \in Clients |-> IdleClient]
  /\ worker = [w \in Workers |-> IdleWorker]
  /\ max_people \in Capacities
  /\ unbroken = EmptyStore

\* rule.Evaluate(None, ENROLLED) of the online or of the offline rule
EvaluateCall(offline) ==
  LET namespace == IF offline THEN "offline" ELSE "online"
      r == Evaluate(memcache[namespace], registrations, offline)
  IN /\ ~evalOut.done
     /\ evalOut' = [done |-> TRUE, raised |-> FALSE, ran |-> 1,
                    final_status |-> r.status, offline |-> offline,
                    resource_remaining |-> r.resource_remaining]
     /\ memcache' = [memcache EXCEPT ![namespace] = r.namespace]
     /\ UNCHANGED <<lockLayerVars, datastoreVars, client, worker, evalIn,
                    max_people, unbroken>>

EvaluateNext == \E offline \in BOOLEAN : EvaluateCall(offline)

SpecEvaluate == EvaluateInit /\ [][EvaluateNext]_vars

\* ---------------------------------------------------------------------
\* Properties of the lock layer
\* ---------------------------------------------------------------------
MutualExclusion ==
  \A p, q \in Callers :
     (p # q /\ Holding(p) /\ Holding(q)) => caller[p].name # caller[q].name

\* The lock p is trying to acquire is present and not expired.
LockedOut(p) ==
  /\ caller[p].pc = "acquire"
  /\ locks[caller[p].name].present
  /\ ~(locks[caller[p].name].expire_time < now)

AcquireRefused ==
  \A p \in Callers :
     (LockedOut(p) /\ caller'[p] # caller[p] /\ caller'[p].pc # "dead")
        => /\ locks' = locks
           /\ ~caller'[p].acquired.present
           /\ caller'[p].pc \in {"acquire", "finally"}
           /\ (caller'[p].pc = "finally"
                 => /\ caller[p].try_count > 0
                    /\ caller[p].trials >= caller[p].try_count
                    /\ caller'[p].result = "LockAcquireFailure")

RunsWithLockHeld ==
  \A p \in Callers :
     caller[p].pc = "run"
        => caller[p].acquired.present /\ locks[caller[p].name] = caller[p].acquired

\* What the caller of RunSynchronous gets once it has ended.
OutcomeReachesCaller ==
  \A p \in Callers :
     caller[p].pc = "done"
        => \/ caller[p].result \in {"returned", "raised"}
              /\ caller[p].ran /\ caller[p].acquired.present
           \/ caller[p].result = "LockAcquireFailure"
              /\ ~caller[p].ran /\ ~caller[p].acquired.present

\* The step that ends RunSynchronous removes the acquired record, and
\* removes nothing when no lock was acquired.
ReleasedOnExit ==
  \A p \in Callers :
     (Alive(p) /\ caller'[p].pc = "done")
        => IF caller[p].acquired.present
             THEN ~locks'[caller[p].name].present
             ELSE locks' = locks

AllowedTargets(initial_status) == Range(VALID_TRANSITIONS[initial_status])

\* The verdicts of the rules that were asked.
Returned == {evalIn.verdicts[i] : i \in 1..evalOut.ran}

\* C6: for a legal (initial, target) pair and any rule verdicts
\* _RulesEvaluate returns a final status that is an allowed target of the
\* initial status; it raises BadStateTransition exactly when the pair is
\* illegal or a rule that was asked returned a verdict that is no allowed
\* target of the initial status.
C6_EvaluateStaysInTable ==
  evalOut.done =>
     LET legal == evalIn.target_status \in AllowedTargets(evalIn.initial_status)
         bad == \E v \in Returned : v \notin AllowedTargets(evalIn.initial_status)
     IN /\ evalOut.raised <=> (~legal \/ bad)
        /\ ~legal => evalOut.ran = 0
        /\ ~evalOut.raised
              => evalOut.final_status \in AllowedTargets(evalIn.initial_status)

\* C6 witness: two rules disagreed on a legal transition and a status came back.
C6_Witness ==
  /\ evalOut.done /\ ~evalOut.raised /\ evalOut.ran = 2
  /\ evalIn.verdicts[1] # evalIn.verdicts[2]
  /\ evalOut.final_status # evalIn.target_status

\* ---------------------------------------------------------------------
\* One active registration per registrant (C1)
\* ---------------------------------------------------------------------
\* C1: in every reachable state, under any interleaving of RegisterOnline,
\* UnregisterOnline and the steps of offline processing, at most one
\* registration of a registrant for the activity is ACTIVE.
C1_OneActivePerRegistrant ==
  \A user \in Users : Cardinality(ActiveQuery(registrations, user)) <= 1

\* ---------------------------------------------------------------------
\* The max_people rule offline (C2)
\* ---------------------------------------------------------------------
ProcessedEnrolled ==
  {k \in RegIds : /\ registrations[k].exists
                  /\ registrations[k].confirmed = PROCESSED
                  /\ registrations[k].status = ENROLLED}

\* C2, as claimed: never more than K = max_people registrations are
\* PROCESSED and ENROLLED.
C2_AtMostKProcessedEnrolled == Cardinality(ProcessedEnrolled) <= MaxPeople

\* C2, amended: never more than K registrations whose status was not
\* forced are PROCESSED and ENROLLED; a forced registration is enrolled
\* whatever the rule says.
C2_AtMostKUnforcedProcessedEnrolled ==
  Cardinality({k \in ProcessedEnrolled : ~registrations[k].force_status})
    <= MaxPeople

\* The rule has refused a registration offline: K registrations are
\* PROCESSED and ENROLLED without force and one more is PROCESSED and
\* WAITLISTED.
C2_Witness ==
  /\ Cardinality({k \in ProcessedEnrolled : ~registrations[k].force_status})
       = MaxPeople
  /\ \E k \in RegIds : /\ registrations[k].exists
                        /\ registrations[k].confirmed = PROCESSED
                        /\ registrations[k].status = WAITLISTED
                        /\ ~registrations[k].force_status

\* ---------------------------------------------------------------------
\* The offline task runs serially (C5)
\* ---------------------------------------------------------------------
\* w executes ProcessOfflineUnsafe, inside RunSynchronous
Running(w) == worker[w].pc \notin {"idle", "lock"}

SerialRuns ==
  \A w1 \in Workers, w2 \in Workers : Running(w1) /\ Running(w2) => w1 = w2

\* An invocation that waits for the offline lock goes on waiting or starts
\* ProcessOfflineUnsafe: it does not return without processing.
WaitsOrRuns ==
  \A w \in Workers :
     worker[w].pc = "lock" =>
        \/ worker'[w].pc = "lock"
        \/ worker'[w].pc = "fetch" /\ worker'[w].stage = UNREGISTERED

BothRegistered ==
  /\ \A c \in Clients : /\ client[c].pc = "done"
                         /\ client[c].op = "register"
                         /\ ~client[c].force_status
  /\ \A c1 \in Clients, c2 \in Clients :
        c1 # c2 => client[c1].user # client[c2].user

\* C7: with max_people = 1 and no prior registrations, when two registrants
\* call RegisterOnline concurrently, exactly one ends ENROLLED and the
\* other ends WAITLISTED with resource_remaining = -1.
C7_OneEnrolledOneWaitlisted ==
  BothRegistered =>
     \E c1 \in Clients, c2 \in Clients :
        /\ c1 # c2
        /\ client[c1].result = ENROLLED
        /\ client[c2].result = WAITLISTED
        /\ client[c2].resource_remaining = -1

\* ---------------------------------------------------------------------
\* The counters after the cache was cleared (C8)
\* ---------------------------------------------------------------------
\* C8: for any sequence of online and offline operations, clearing the
\* cache at any point and letting the next _Incr or _Get rebuild the
\* counter yields the same counter values as the same sequence run without
\* the clear.
C8_RebuildReproducesCount ==
  \A namespace \in Namespaces :
     /\ memcache[namespace].counter # Missing
     /\ unbroken.memcache[namespace].counter # Missing
     => memcache[namespace].counter = unbroken.memcache[namespace].counter

\* ---------------------------------------------------------------------
\* Reprocessing by tags is resumable (C9)
\* ---------------------------------------------------------------------
WaitingProcessed(k) ==
  /\ registrations[k].exists
  /\ registrations[k].status = WAITLISTED
  /\ registrations[k].confirmed = PROCESSED
  /\ registrations[k].active = ACTIVE

WaitingReady(k) ==
  /\ registrations[k].exists
  /\ registrations[k].status = WAITLISTED
  /\ registrations[k].confirmed = READY
  /\ registrations[k].active = ACTIVE

\* The registrations that are due: those waiting on a pending tag, those
\* on the stored list that still wait, and those made READY.
Due ==
  WaitingForTags(registrations, reprocess_tags)
    \cup {k \in waitlist_reprocess : WaitingProcessed(k)}
    \cup {k \in RegIds : WaitingReady(k)}

NothingPending == reprocess_tags = {} /\ waitlist_reprocess = {}

\* C9: if _ReadyRegistrationsInWaitingUnsafe is killed at any point of
\* phase 1 or phase 2 and invoked again, then eventually exactly the
\* registrations that were WAITLISTED, PROCESSED and ACTIVE with an
\* affecting tag in the pending set are READY: the due registrations stay
\* the same at every step (none is skipped, none is added), a registration
\* that is READY is not written again (none is flipped twice), and
\* eventually nothing is pending, when the due registrations are exactly
\* the READY ones.
C9_Resumable ==
  /\ [][Due' = Due]_vars
  /\ [][\A k \in RegIds : registrations[k].confirmed = READY
                              => registrations'[k] = registrations[k]]_vars
  /\ <>[]NothingPending

\* An invocation was killed in the middle of a batch, and nothing is
\* pending any more: the registrations that were due are READY.
C9_Witness ==
  /\ \E w \in Workers : worker[w].pc = "dead" /\ worker[w].bucket # {}
  /\ NothingPending
  /\ \E k \in RegIds : WaitingReady(k) /\ registrations[k].user = "B"
  /\ now > 0

\* ---------------------------------------------------------------------
\* Registering again (C10)
\* ---------------------------------------------------------------------
\* The call of c is a RegisterOnline without force of a registrant who has
\* an ACTIVE registration.
RegistersAgain(c) ==
  /\ client[c].pc = "idle"
  /\ client'[c].pc = "done"
  /\ client'[c].op = "register"
  /\ ~client'[c].force_status
  /\ ActiveQuery(registrations, client'[c].user) # {}

\* C10: RegisterOnline without force, called while an ACTIVE registration
\* of the registrant exists, returns that registration's status and
\* changes nothing: no registration is created or modified and no counter
\* changes.
C10_ReRegisterEchoes ==
  [][\A c \in Clients :
        RegistersAgain(c) =>
           /\ \E k \in ActiveQuery(registrations, client'[c].user) :
                 client'[c].result = registrations[k].status
           /\ UNCHANGED <<registrations, created, memcache>>]_vars

\* A call echoed the status of the registrant's ACTIVE registration.
C10_Witness ==
  \E c \in Clients :
     /\ client[c].pc = "done"
     /\ client[c].op = "register"
     /\ ~client[c].force_status
     /\ client[c].reg = 0
     /\ client[c].result \in {ENROLLED, WAITLISTED}
     /\ ActiveQuery(registrations, client[c].user) # {}

\* ---------------------------------------------------------------------
\* The provisional entry of RegisterOnline (C11)
\* ---------------------------------------------------------------------
\* The call of c has put its provisional entry and has not ended.
Provisional(c) ==
  /\ client[c].op = "register"
  /\ client[c].pc \in {"incr", "build", "add", "final"}

\* The call of c ends with a final status.
RegisterEnds(c) ==
  /\ client[c].op = "register"
  /\ client[c].pc = "final"
  /\ client'[c].pc = "done"

\* C11: when RegisterOnline finds no ACTIVE registration, the provisional
\* entry it wrote (NOT_READY, INACTIVE until the call ends) ends in a state
\* fixed by the final status: deleted when the final status is None,
\* otherwise stored READY and ACTIVE with the status returned to the caller.
C11_ProvisionalEntrySettled ==
  /\ [](\A c \in Clients :
          Provisional(c) =>
             registrations[client[c].reg] =
                ProvisionalEntry(client[c].user, client[c].force_status))
  /\ [][\A c \in Clients :
          RegisterEnds(c) =>
             LET new_entry == registrations'[client[c].reg]
                 final_status == client'[c].result
             IN IF final_status = None
                  THEN ~new_entry.exists
                  ELSE /\ new_entry.exists
                       /\ new_entry.confirmed = READY
                       /\ new_entry.active = ACTIVE
                       /\ new_entry.status = final_status
                       /\ new_entry.user = client[c].user]_vars

\* A call was denied by the rule after the max_people rule and its
\* provisional entry is gone.
C11_Witness ==
  \E c \in Clients :
     /\ client[c].pc = "done"
     /\ client[c].op = "register"
     /\ client[c].reg # 0
     /\ client[c].result = None
     /\ ~registrations[client[c].reg].exists

\* ---------------------------------------------------------------------
\* A denied registration releases its reservations (C12)
\* ---------------------------------------------------------------------
\* The step is a call of RegisterOnline that finds no ACTIVE registration
\* and whose final status is None.
DeniedRegisterOnline ==
  \E user \in Users, force_status \in BOOLEAN, others \in RegisterVerdicts :
     /\ RegisterOnlineRequestWith(user, force_status, others)
     /\ ActiveQuery(registrations, user) = {}
     /\ RegisterOnlineRules(Store, user, force_status, others).result = None

\* C12: when the final status of RegisterOnline is None, notifying the
\* rules releases the reservation made during the evaluation: the online
\* counter the max_people rule incremented has the value it had before the
\* call, and a counter that was not cached before the call has the number
\* of registrations counted before the call.
C12_DenialReleasesReservations ==
  [][DeniedRegisterOnline =>
        memcache'["online"].counter =
           IF memcache["online"].counter # Missing
             THEN memcache["online"].counter
             ELSE BuildContext(registrations, FALSE)]_vars

\* A registration was accepted and the next one denied: the counter is
\* back to the one registration.
C12_Witness ==
  /\ created = 2
  /\ registrations[1].exists
  /\ ~registrations[2].exists
  /\ memcache["online"].counter = 1

\* ---------------------------------------------------------------------
\* UnregisterOnline writes only when the rules accept (C13)
\* ---------------------------------------------------------------------
\* The unregistration of a registration: the record parented to it.
UnregistrationsOf(k) ==
  {j \in RegIds : /\ registrations[j].exists
                   /\ registrations[j].status = UNREGISTERED
                   /\ registrations[j].parent = k}

\* No state shows the unregistration record without the flip of the
\* registration it cancels, or the flip without the record.
UnregisterIsWhole ==
  /\ \A j \in RegIds :
        registrations[j].exists /\ registrations[j].status = UNREGISTERED =>
           /\ registrations[j].confirmed = READY
           /\ registrations[j].active = INACTIVE
           /\ registrations[j].parent \in RegIds
           /\ registrations[registrations[j].parent].exists
           /\ registrations[registrations[j].parent].active = INACTIVE
           /\ registrations[registrations[j].parent].user = registrations[j].user
  /\ \A k \in RegIds :
        /\ registrations[k].exists
        /\ registrations[k].status # UNREGISTERED
        /\ registrations[k].confirmed # NOT_READY
        => Cardinality(UnregistrationsOf(k)) =
              IF registrations[k].active = INACTIVE THEN 1 ELSE 0

\* The step is one of a call of UnregisterOnline by c, other than the end
\* of a call the rules accepted.
UnregisterWithoutAccept(c) ==
  /\ client'[c] # client[c]
  /\ client'[c].op = "unregister"
  /\ ~(/\ client[c].pc = "final"
       /\ client'[c].pc = "done"
       /\ client'[c].result = UNREGISTERED)

\* The step is a call of UnregisterOnline by c that finds no ACTIVE
\* registration.
NothingToUnregister(c) ==
  /\ client[c].pc = "idle"
  /\ client'[c].op = "unregister"
  /\ ActiveQuery(registrations, client'[c].user) = {}

\* C13: UnregisterOnline changes registrations only when the rules accept.
\* With no ACTIVE registration it returns UNREGISTERED and writes nothing;
\* when denied it writes nothing; when accepted, the new record
\* (UNREGISTERED, READY, INACTIVE, parented to the active one) and the flip
\* of the active one to INACTIVE take effect together: no state shows one
\* without the other.
C13_UnregisterWritesOnAccept ==
  /\ []UnregisterIsWhole
  /\ [][\A c \in Clients :
          /\ UnregisterWithoutAccept(c) => UNCHANGED <<registrations, created>>
          /\ NothingToUnregister(c) =>
                client'[c].pc = "done" /\ client'[c].result = UNREGISTERED]_vars

\* One unregistration was accepted and a call was denied by the rule after
\* the max_people rule.
C13_Witness ==
  /\ \E k \in RegIds : UnregistrationsOf(k) # {}
  /\ \E c \in Clients :
        /\ client[c].pc = "done"
        /\ client[c].op = "unregister"
        /\ client[c].reg # 0
        /\ client[c].result \in {ENROLLED, WAITLISTED}

\* ---------------------------------------------------------------------
\* Prediction mode (C14)
\* ---------------------------------------------------------------------
\* The step is a call of PredictRegistrationOutcome.
Predicts ==
  \E force_status \in BOOLEAN, others \in RegisterVerdicts :
     PredictRegistrationOutcomeRequest(force_status, others)

\* In prediction mode _Incr returns the cached value plus one.
PredictsOneMore ==
  \A force_status \in BOOLEAN, others \in RegisterVerdicts :
     memcache["online"].counter # Missing =>
        PredictRegistrationOutcome(Store, force_status, others).resource_remaining
           = MaxPeople - (memcache["online"].counter + 1)

RetriesExhausted(c) ==
  /\ client[c].pc = "add"
  /\ client[c].op = "register"
  /\ client[c].retries = 0
  /\ client'[c] # client[c]

\* C15: when _Incr cannot obtain a counter value after rebuilding and
\* exhausting its retries, the online evaluation goes on with a WAITLISTED
\* verdict of the rule (resource_remaining 0): the request is answered,
\* not failed.
C15_OnlineDegradesToWaitlisted ==
  [][\A c \in Clients :
        RetriesExhausted(c) =>
           /\ client'[c].pc = "final"
           /\ client'[c].status = WAITLISTED
           /\ client'[c].resource_remaining = 0]_vars

\* ---------------------------------------------------------------------
\* The online counter never under-counts (C16)
\* ---------------------------------------------------------------------
\* Every online operation that was started has completed, and none has
\* left its provisional entry behind.
NoCallInFlight ==
  /\ \A c \in Clients : client[c].pc \in {"idle", "done"}
  /\ \A k \in RegIds :
        registrations[k].exists => registrations[k].confirmed # NOT_READY

\* C16: after any online operation completes, also one that rebuilt the
\* counter on a cache miss while other attempts were in flight, the online
\* counter present in the cache is at least the number of registrations
\* counted as consuming the resource.
C16_OnlineCounterNeverUnderCounts ==
  NoCallInFlight /\ memcache["online"].counter # Missing =>
     memcache["online"].counter >= BuildContext(registrations, FALSE)

\* ---------------------------------------------------------------------
\* A waitlisted request keeps its slot (C17)
\* ---------------------------------------------------------------------
\* A request the max_people rule answered WAITLISTED online: its call has
\* the verdict and is not finished, or its registration is stored
\* WAITLISTED with the tag of the rule and waits for the offline process.
WaitlistedByRule(c) ==
  /\ client[c].op = "register"
  /\ client[c].pc = "final"
  /\ client[c].status = WAITLISTED

StoredWaitlistedByRule(k) ==
  /\ registrations[k].exists
  /\ registrations[k].status = WAITLISTED
  /\ registrations[k].confirmed = READY
  /\ registrations[k].active = ACTIVE
  /\ registrations[k].affecting_rule_tags = Tags

\* The max_people rule answers ENROLLED to the request of client c.
EnrolledByRule(c) ==
  /\ client[c].op = "register"
  /\ client[c].pc = "incr"
  /\ client'[c].pc = "final"
  /\ client'[c].status = ENROLLED

\* C17: online, while a request waitlisted by the max_people counter is
\* still waitlisted (its call goes on, where it may yet be denied, or its
\* registration is stored WAITLISTED), the rule answers ENROLLED to no
\* request that arrives later on the same counter (the entries of the
\* requests are keyed in the order of their arrival).
C17_NoLeapfrog ==
  [][\A c \in Clients :
        (\/ \E d \in Clients \ {c} :
               WaitlistedByRule(d) /\ client[d].reg < client[c].reg
         \/ \E k \in RegIds :
               StoredWaitlistedByRule(k) /\ k < client[c].reg)
        => ~EnrolledByRule(c)]_vars

\* ---------------------------------------------------------------------
\* Provisional entries are inactive (C18)
\* ---------------------------------------------------------------------
\* C18: every stored registration with confirmed = NOT_READY has
\* active = INACTIVE.
C18_NotReadyIsInactive ==
  \A k \in RegIds :
     registrations[k].exists /\ registrations[k].confirmed = NOT_READY
        => registrations[k].active = INACTIVE

\* A provisional entry is stored while the rules of its request are
\* evaluated.
C18_Witness ==
  \E c \in Clients :
     /\ client[c].op = "register"
     /\ client[c].pc = "final"
     /\ registrations[client[c].reg].exists
     /\ registrations[client[c].reg].confirmed = NOT_READY

\* ---------------------------------------------------------------------
\* A rule update evicts nobody (C19)
\* ---------------------------------------------------------------------
\* The offline process answers ENROLLED to registration k, which was
\* WAITLISTED.
WaitlistedGetsEnrolled(k) ==
  /\ registrations[k].exists
  /\ registrations[k].status = WAITLISTED
  /\ registrations'[k].exists
  /\ registrations'[k].status = ENROLLED

\* C19: changing the max_people rule of an activity evicts nobody. In
\* UpdateProgramOrActivityRules and in every step of the reprocessing that
\* follows, a registration that is PROCESSED and ENROLLED stays as it is,
\* also when there are more of them than the new capacity, and a
\* WAITLISTED registration is enrolled only when fewer registrations are
\* enrolled than the capacity allows.
C19_RuleUpdateEvictsNobody ==
  [][/\ \A k \in ProcessedEnrolled : registrations'[k] = registrations[k]
     /\ \A k \in RegIds :
           WaitlistedGetsEnrolled(k)
              => Cardinality(ProcessedEnrolled) < max_people]_vars

\* The capacity was changed to less than the number of enrolled
\* registrations, and the reprocessing that followed has made a waitlisted
\* registration ready to be evaluated again.
C19_Witness ==
  /\ max_people # MaxPeople
  /\ Cardinality(ProcessedEnrolled) > max_people
  /\ \E w \in Workers : worker[w].pc = "checkpoint"
  /\ \E k \in waitlist_reprocess :
        /\ registrations[k].exists
        /\ registrations[k].status = WAITLISTED
        /\ registrations[k].confirmed = READY
        /\ registrations[k].active = ACTIVE

\* ---------------------------------------------------------------------
\* Provisional decisions are reconciled offline (C20)
\* ---------------------------------------------------------------------
\* ProcessOfflineUnsafe has returned False to the invocation w.
NoMoreWork(w) == worker[w].pc = "end" /\ ~worker[w].more_processing

\* w leaves ProcessOfflineTask with a task in the queue exactly when its
\* unit of work reported more work.
ReEnqueues(w) ==
  worker[w].pc = "end" /\ worker'[w].pc = "idle"
     => worker'[w].enqueued = worker[w].more_processing

Incremented(namespace, offline) ==
  IF memcache[namespace].counter # Missing
    THEN memcache[namespace].counter + 1
    ELSE RegenerateValue(registrations, offline) + 1

\* What a call of the rule has to answer and to leave in its namespace.
EvaluatesAsClaimed(namespace, offline) ==
  LET num_students == Incremented(namespace, offline)
  IN /\ evalOut'.final_status = ENROLLED <=> num_students <= max_people
     /\ evalOut'.final_status \in {ENROLLED, WAITLISTED}
     /\ evalOut'.resource_remaining = max_people - num_students
     /\ memcache'[namespace].counter =
           IF offline /\ evalOut'.final_status = WAITLISTED
             THEN num_students - 1
             ELSE num_students

\* C21: asked about a transition to ENROLLED, a max_people rule answers
\* ENROLLED iff its counter after the increment is at most the capacity,
\* else WAITLISTED, with resource_remaining the capacity minus that value;
\* on WAITLISTED the offline rule decrements at once (no net change) and
\* the online rule leaves the increment in place.
C21_MaxPeopleVerdict ==
  [][~evalOut.done /\ evalOut'.done =>
        EvaluatesAsClaimed(IF evalOut'.offline THEN "offline" ELSE "online",
                           evalOut'.offline)]_vars

\* The offline rule has answered WAITLISTED on a cached counter at the
\* capacity, and the counter is at the capacity.
C21_Witness ==
  /\ evalOut.done
  /\ evalOut.offline
  /\ evalOut.final_status = WAITLISTED
  /\ evalOut.resource_remaining = -1
  /\ memcache["offline"].counter = max_people
  /\ max_people = MaxPeople

\* ---------------------------------------------------------------------
\* The combined rule result (C22)
\* ---------------------------------------------------------------------
\* The position of a verdict in the transition list of the initial status.
Precedence(v) ==
  CHOOSE i \in DOMAIN VALID_TRANSITIONS[evalIn.initial_status] :
     VALID_TRANSITIONS[evalIn.initial_status][i] = v

\* The most restrictive verdict wins.
MostRestrictiveWins ==
  /\ evalIn.initial_status = None =>
        evalOut.combined = IF None \in Returned THEN None
                           ELSE IF WAITLISTED \in Returned THEN WAITLISTED
                           ELSE ENROLLED
  /\ evalIn.initial_status = ENROLLED =>
        evalOut.combined = IF ENROLLED \in Returned THEN ENROLLED
                           ELSE UNREGISTERED

\* C22: the final status _RulesEvaluate computes from the rule results is
\* the verdict of highest priority among the rules that ran, the priority
\* of a verdict being its position in the transition list of the initial
\* status (from None: deny over WAITLISTED over ENROLLED; from ENROLLED:
\* ENROLLED over UNREGISTERED); when no rule ran it is the target status.
\* It is the status returned when the status is not forced.
C22_HighestPriorityVerdict ==
  evalOut.done /\ ~evalOut.raised =>
     /\ Returned = {} => evalOut.combined = evalIn.target_status
     /\ Returned # {} =>
           /\ evalOut.combined \in Returned
           /\ \A v \in Returned : Precedence(v) <= Precedence(evalOut.combined)
           /\ MostRestrictiveWins
     /\ ~evalIn.force_status => evalOut.final_status = evalOut.combined

\* Two rules ran on a new registration, the first answered WAITLISTED and
\* the second ENROLLED: the combined result is WAITLISTED.
C22_Witness ==
  /\ evalOut.done
  /\ ~evalOut.raised
  /\ evalIn.initial_status = None
  /\ evalIn.target_status = ENROLLED
  /\ evalIn.verdicts = <<WAITLISTED, ENROLLED>>
  /\ evalOut.ran = 2
  /\ evalOut.combined = WAITLISTED

\* ---------------------------------------------------------------------
\* Enumeration order and early exit (C23)
\* ---------------------------------------------------------------------
\* The access points of the list without repetition, in the order of their
\* first occurrence.
RECURSIVE DistinctAccessPoints(_)
DistinctAccessPoints(access_point_list) ==
  IF access_point_list = <<>> THEN <<>>
  ELSE LET front == SubSeq(access_point_list, 1, Len(access_point_list) - 1)
           last == access_point_list[Len(access_point_list)]
       IN IF last \in Range(front)
            THEN DistinctAccessPoints(front)
            ELSE Append(DistinctAccessPoints(front), last)

\* The rules in enumeration order: program, activity, each distinct access
\* point.
EnumerationOrder ==
  LET distinct == DistinctAccessPoints(evalIn.access_point_list)
  IN evalIn.program_rules \o evalIn.activity_rules
        \o [i \in 1..Len(distinct) |-> AccessPointRules(distinct[i])[1]]

\* The rule answers the status that ends the evaluation early.
AnswersStop(rule) ==
  evalIn.answers[rule]
     = VALID_TRANSITIONS[evalIn.initial_status]
                        [Len(VALID_TRANSITIONS[evalIn.initial_status])]

\* C23: the rules are evaluated in enumeration order (program, activity,
\* then each distinct access point); when the status is not forced, no rule
\* is evaluated, and so no resource is reserved by a rule, after the first
\* rule whose verdict is the stop status, and every rule before it is.
C23_OrderAndEarlyExit ==
  evalOut.done /\ ~evalOut.raised =>
     LET n == Len(evalOut.evaluated)
     IN /\ n <= Len(EnumerationOrder)
        /\ evalOut.evaluated = SubSeq(EnumerationOrder, 1, n)
        /\ ~evalIn.force_status =>
              /\ \A i \in 1..n : AnswersStop(evalOut.evaluated[i]) => i = n
              /\ n < Len(EnumerationOrder) => AnswersStop(evalOut.evaluated[n])

\* The rule of the activity denied a new registration: the rule of the
\* program was asked before it and the rule of the access point, listed
\* twice, was not asked.
C23_Witness ==
  /\ evalOut.done
  /\ ~evalOut.raised
  /\ ~evalIn.force_status
  /\ evalIn.initial_status = None
  /\ evalIn.access_point_list = <<"x", "x">>
  /\ evalIn.answers["activity_rule"] = None
  /\ evalOut.evaluated = <<"program_rule", "activity_rule">>

\* ---------------------------------------------------------------------
\* A forced status (C24)
\* ---------------------------------------------------------------------
\* C24: with force_status set, a call of _RulesEvaluate that returns has
\* evaluated every enumerated rule (a stop verdict does not end the
\* evaluation), its final status is the target status whatever the rules
\* answered, and every rule that ran is affecting: the affecting configs
\* are all configs and the affecting tags are all tags.
C24_ForcedStatus ==
  evalOut.done /\ ~evalOut.raised /\ evalIn.force_status =>
     /\ evalOut.evaluated = EnumerationOrder
     /\ evalOut.final_status = evalIn.target_status
     /\ evalOut.affecting_rule_configs = Range(EnumerationOrder)
     /\ evalOut.affecting_rule_tags = evalOut.all_rule_tags
     /\ evalOut.all_rule_tags =
           {rule \o "_" : rule \in Range(EnumerationOrder)}
              \cup {"_rule_engine_tag_program", "_rule_engine_tag_activity"}

\* A forced registration that the rule of the program denied and the rule
\* of the activity waitlisted is answered ENROLLED after three rules ran.
C24_Witness ==
  /\ evalOut.done
  /\ ~evalOut.raised
  /\ evalIn.force_status
  /\ evalIn.initial_status = None
  /\ evalIn.target_status = ENROLLED
  /\ evalIn.answers["program_rule"] = None
  /\ evalIn.answers["activity_rule"] = WAITLISTED
  /\ evalOut.ran = 3
  /\ evalOut.combined = None
  /\ evalOut.final_status = ENROLLED

\* ---------------------------------------------------------------------
\* The offline step of one unregistration, with crashes and re-runs
\* ---------------------------------------------------------------------
\* The registration of A as a request or the offline task left it, then
\* unregistered online: the unregister entry 2 is READY under its parent 1.
\* Both counters are cached or not; unbroken keeps the store of the start.
UnregisterInit ==
  /\ LockIdle
  /\ EvalIdle
  /\ \E a \in SettledRegistrations("A") \ {NoReg}, b \in SettledRegistrations("B") :
        registrations =
           InitiateUnregister([k \in RegIds |-> IF k = 1 THEN a
                                                ELSE IF k = 3 THEN b ELSE NoReg],
                              2, 1, Tags)
  /\ created = 3
  /\ reprocess_tags = {}
  /\ waitlist_reprocess = {}
  /\ run_in_progress = FALSE
  /\ memcache \in [Namespaces -> CachedNamespaces]
  /\ client = [c \in Clients |-> IdleClient]
  /\ worker = [w \in Workers |->
        IF w \in MainWorkers
          THEN [IdleWorker EXCEPT !.pc = "record", !.stage = UNREGISTERED,
                                  !.rec = 2]
          ELSE IdleWorker]
  /\ max_people = MaxPeople
  /\ unbroken = Store

\* _CheckPointed(_UnregisterOfflineUnsafe) on the fetched record: the run
\* ends normally (cut "none": both entities are deleted and
\* 'offline_run_in_progress' is removed) or with an exception at a crash
\* point, and then the task queue runs the task again on the same record.
CheckPointedUnregister(w, cut) ==
  LET me == worker[w]
      namespace == CheckPointedNamespace(memcache["offline"], run_in_progress)
  IN /\ me.pc = "record"
     /\ registrations[me.rec].exists
     /\ registrations[me.rec].status = UNREGISTERED
     /\ registrations[me.rec].confirmed = READY
     /\ IF cut = "none"
          THEN /\ Becomes(UnregisterOfflineUnsafe(Store, me.rec, namespace))
               /\ run_in_progress' = FALSE
               /\ worker' = [worker EXCEPT ![w] =
                     [IdleWorker EXCEPT !.pc = "end", !.more_processing = TRUE]]
          ELSE /\ Becomes(UnregisterOfflineUpTo(Store, me.rec, namespace, cut))
               /\ run_in_progress' = TRUE
               /\ UNCHANGED worker
     /\ UNCHANGED <<lockLayerVars, waitlist_reprocess, client, outsideMain>>

UnregisterNext ==
  \E w \in MainWorkers, cut \in CrashPoints \cup {"none"} :
     CheckPointedUnregister(w, cut)

SpecUnregister == UnregisterInit /\ [][UnregisterNext]_vars

\* ---------------------------------------------------------------------
\* The offline step of the queued registrations under two rules
\* ---------------------------------------------------------------------
\* Registrations of A and B that the online path accepted and queued
\* (READY, ACTIVE); the rules of the activity and what the employee type
\* rule answers offline are in evalIn.
QueuedRegistrations(user) ==
  {UserRegistration(user, force_status, status, READY, ACTIVE, 0, Tags) :
     force_status \in BOOLEAN, status \in {ENROLLED, WAITLISTED}}

DenyInit ==
  /\ LockIdle
  /\ evalIn \in [rule_configs : RuleOrders, employee_status : EmployeeStatuses]
  /\ evalOut = NotEvaluated
  /\ \E a \in QueuedRegistrations("A"), b \in QueuedRegistrations("B") :
        registrations = [k \in RegIds |-> IF k = 1 THEN a
                                          ELSE IF k = 2 THEN b ELSE NoReg]
  /\ created = 2
  /\ reprocess_tags = {}
  /\ waitlist_reprocess = {}
  /\ run_in_progress = FALSE
  /\ memcache \in [Namespaces -> CachedNamespaces]
  /\ client = [c \in Clients |-> IdleClient]
  /\ worker = [w \in Workers |-> IdleWorker]
  /\ max_people = MaxPeople
  /\ unbroken = EmptyStore

\* _CheckPointed(_RegisterOfflineUnsafe) on the next READY registration of
\* a status, run to its end.
CheckPointedRegister(status) ==
  LET rec == NextReady(registrations, status)
  IN /\ rec # 0
     /\ Becomes(RegisterOfflineRules(Store, rec, memcache["offline"],
                                     evalIn.rule_configs,
                                     evalIn.employee_status))
     /\ UNCHANGED <<lockLayerVars, waitlist_reprocess, run_in_progress, client,
                    worker, outsideMain>>

DenyNext == \E status \in {ENROLLED, WAITLISTED} : CheckPointedRegister(status)

SpecDeny == DenyInit /\ [][DenyNext]_vars

\* ---------------------------------------------------------------------
\* An unregistration under a cancel deadline that is changed
\* ---------------------------------------------------------------------
\* eval_context.activity.start_time, on the clock of the model
ActivityStart == MaxTime

CancelTimes == 0..MaxTime

\* TimeCancelByActivity.Evaluate(initial_state, target_state) for a request
\* queued at queue_time, under a rule of time_to_activity
TimeCancelByActivity(initial_state, target_state, queue_time, time_to_activity) ==
  IF target_state = UNREGISTERED /\ initial_state = ENROLLED
    THEN IF queue_time < ActivityStart - time_to_activity
           THEN UNREGISTERED
           ELSE initial_state
    ELSE target_state

\* The request to unregister from the active registration of a status,
\* queued at a time, and the rule of the activity; nothing evaluated yet.
CancelInit ==
  /\ LockIdle
  /\ MainIdle
  /\ evalIn \in [initial_status : {ENROLLED, WAITLISTED},
                  force_status : BOOLEAN,
                  queue_time : CancelTimes,
                  time_to_activity : CancelTimes]
  /\ evalOut = [pc |-> "online", final_status |-> None,
                time_to_activity |-> evalIn.time_to_activity]

\* _UnregisterOnlineUnsafe: the rules are evaluated online and the
\* unregister entry is stored READY if they agree.
UnregisterOnlineRules ==
  LET result == RulesEvaluate(
         evalIn.initial_status, UNREGISTERED, evalIn.force_status,
         <<TimeCancelByActivity(evalIn.initial_status, UNREGISTERED,
                                evalIn.queue_time, evalIn.time_to_activity)>>)
  IN /\ evalOut.pc = "online"
     /\ evalOut' = [evalOut EXCEPT
           !.pc = IF result.final_status = UNREGISTERED THEN "ready"
                  ELSE "refused",
           !.final_status = result.final_status]
     /\ UNCHANGED <<evalIn, outsideEval>>

\* The rule of the activity is replaced while the entry waits for the
\* offline step.
UpdateCancelRule(time_to_activity) ==
  /\ evalOut.pc = "ready"
  /\ time_to_activity # evalIn.time_to_activity
  /\ evalIn' = [evalIn EXCEPT !.time_to_activity = time_to_activity]
  /\ UNCHANGED <<evalOut, outsideEval>>

\* _UnregisterOfflineUnsafe: the rules are evaluated offline with the
\* context of the entry (its queue_time and force_status) and the status
\* of the parent; the assertion follows.
UnregisterOfflineRules ==
  LET result == RulesEvaluate(
         evalIn.initial_status, UNREGISTERED, evalIn.force_status,
         <<TimeCancelByActivity(evalIn.initial_status, UNREGISTERED,
                                evalIn.queue_time, evalIn.time_to_activity)>>)
  IN /\ evalOut.pc = "ready"
     /\ evalOut' = [evalOut EXCEPT
           !.pc = IF result.final_status = UNREGISTERED THEN "processed"
                  ELSE "AssertionError",
           !.final_status = result.final_status]
     /\ UNCHANGED <<evalIn, outsideEval>>

CancelNext ==
  \/ UnregisterOnlineRules
  \/ \E time_to_activity \in CancelTimes : UpdateCancelRule(time_to_activity)
  \/ UnregisterOfflineRules

SpecCancel == CancelInit /\ [][CancelNext]_vars

\* ---------------------------------------------------------------------
\* A verdict that denies (C25)
\* ---------------------------------------------------------------------
\* The request is legal and every rule that was asked answered None or an
\* allowed target of the initial status; one of them answered None.
DeniedByRule ==
  /\ evalOut.done
  /\ evalIn.target_status \in AllowedTargets(evalIn.initial_status)
  /\ None \in Returned
  /\ \A v \in Returned :
        v = None \/ v \in AllowedTargets(evalIn.initial_status)

\* C25, as claimed: a verdict None is accepted exactly when the initial
\* status is None or UNREGISTERED; with the initial status ENROLLED or
\* WAITLISTED it raises BadStateTransition.
C25_DenyLegalFromBeginStates ==
  DeniedByRule =>
     (evalOut.raised <=> evalIn.initial_status \in {ENROLLED, WAITLISTED})

\* C25, amended: a verdict None is accepted exactly when the initial status
\* is None; with the initial status UNREGISTERED, ENROLLED or WAITLISTED it
\* raises BadStateTransition.
C25_DenyLegalFromNone ==
  DeniedByRule =>
     (evalOut.raised <=>
         evalIn.initial_status \in {UNREGISTERED, ENROLLED, WAITLISTED})

\* A rule answered None to a request on an UNREGISTERED registration and
\* BadStateTransition was raised.
C25_Witness ==
  /\ DeniedByRule
  /\ evalIn.initial_status = UNREGISTERED
  /\ evalIn.target_status = ENROLLED
  /\ evalOut.raised

\* ---------------------------------------------------------------------
\* The online reservation of an unregistration (C26)
\* ---------------------------------------------------------------------
\* The online counter is cached and above zero.
OnlineCounted(ns) == ns.init /\ ns.counter > 0

\* The unregister entry and its parent are deleted.
UnregisterDeleted == ~registrations[2].exists /\ ~registrations[1].exists

\* C26, as claimed: when the unregister entry has been processed, whatever
\* crashes and re-runs occurred, the online counter was decremented one
\* time, never twice and never zero times.
C26_ReleasedExactlyOnce ==
  (UnregisterDeleted /\ OnlineCounted(unbroken.memcache["online"])) =>
     memcache["online"].counter = unbroken.memcache["online"].counter - 1

\* A run of the step on the unregister entry: what it does to the online
\* counter, given the flag it finds and where it ends.
ReleasesAsFlagged ==
  LET found == registrations[2].online_unregistered
      saved == \/ registrations'[2].online_unregistered
               \/ ~registrations'[2].exists
      before == memcache["online"]
      after == memcache'["online"]
      start == unbroken.memcache["online"]
  IN /\ after \in {start, MemcacheDecr(start)}
     /\ after # before => ~found /\ saved /\ after = MemcacheDecr(before)
     /\ found => after = before
     /\ (~found /\ ~registrations'[2].exists) => after = MemcacheDecr(before)

\* C26, amended: the online counter is decremented at most once per
\* unregister entry, whatever crashes and re-runs occur. A run decrements
\* only if it found online_unregistered unset, and it has saved the flag
\* by then; a run that found the flag set decrements nothing; a run that
\* found it unset and ends normally has decremented once.
C26_ReleasedAtMostOnce == [][ReleasesAsFlagged]_vars

\* A run has crashed after it released the reservation: the entry is still
\* READY with the flag saved, the counter, which was above one, is one
\* lower, and the step is run again.
C26_Witness ==
  /\ registrations[2].exists
  /\ registrations[2].confirmed = READY
  /\ registrations[2].online_unregistered
  /\ run_in_progress
  /\ unbroken.memcache["online"].init
  /\ unbroken.memcache["online"].counter > 1
  /\ memcache["online"].counter = unbroken.memcache["online"].counter - 1

\* ---------------------------------------------------------------------
\* The online reservation of a registration denied offline (C27)
\* ---------------------------------------------------------------------
\* The offline step deletes the READY registration k: the rules denied it.
DeniedOffline(k) ==
  /\ registrations[k].exists
  /\ registrations[k].confirmed = READY
  /\ ~registrations'[k].exists

\* C27: when offline evaluation of a READY registration yields None, the
\* registration is deleted and the online counter the online path
\* incremented for it is decremented.
C27_DeniedReleasesOnline ==
  [][\A k \in RegIds :
        (DeniedOffline(k) /\ OnlineCounted(memcache["online"])) =>
           memcache'["online"].counter = memcache["online"].counter - 1]_vars

\* The same, when the max_people rule comes before the rule that denies.
C27_DeniedReleasesOnlineEvaluated ==
  [][\A k \in RegIds :
        (/\ DeniedOffline(k)
         /\ OnlineCounted(memcache["online"])
         /\ evalIn.rule_configs[1] = "max_people") =>
           memcache'["online"].counter = memcache["online"].counter - 1]_vars

\* ---------------------------------------------------------------------
\* Unregistered before the enrollment was confirmed offline (C28)
\* ---------------------------------------------------------------------
\* The unregister entry 2 is READY and its parent 1 is ENROLLED and not
\* PROCESSED: the registrant unregistered before the offline step of the
\* enrollment.
UnregisteredUnconfirmed ==
  /\ registrations[2].exists
  /\ registrations[2].confirmed = READY
  /\ registrations[1].status = ENROLLED
  /\ registrations[1].confirmed # PROCESSED

\* The offline counter is left as the evaluation of the rules found or
\* rebuilt it (the enrollments PROCESSED and ENROLLED): nothing is taken
\* off.
OfflineNotDecremented ==
  LET before == memcache["offline"]
  IN IF before.counter # Missing /\ ~run_in_progress
       THEN memcache'["offline"] = before
       ELSE memcache'["offline"].counter = BuildContext(registrations, TRUE)

\* C28: the offline step of an unregistration whose enrollment was not
\* confirmed offline decrements no offline counter and saves no tags to
\* reprocess, and a run that ends normally deletes the unregister entry
\* and its parent. (_NotifyUserAndUpdateCalendars is called in every run
\* before the delete; a notification leaves nothing in the store.)
C28_UnconfirmedEnrollSkipsRelease ==
  [][UnregisteredUnconfirmed =>
        /\ OfflineNotDecremented
        /\ reprocess_tags' = reprocess_tags
        /\ ~registrations'[2].exists => ~registrations'[1].exists]_vars

\* The unregistration of an enrollment still READY was processed: both
\* entities are gone, the offline counter, above zero, is as it was and no
\* tag is stored.
C28_Witness ==
  /\ unbroken.registrations[1].status = ENROLLED
  /\ unbroken.registrations[1].confirmed = READY
  /\ UnregisterDeleted
  /\ OnlineCounted(unbroken.memcache["offline"])
  /\ memcache["offline"] = unbroken.memcache["offline"]
  /\ reprocess_tags = {}

\* ---------------------------------------------------------------------
\* The assertion of the offline unregistration (C29)
\* ---------------------------------------------------------------------
\* C29: the offline evaluation of an unregister entry that the online path
\* accepted yields UNREGISTERED, also when the rules were changed between
\* the online accept and the offline step.
C29_OfflineUnregisterAccepted ==
  evalOut.pc \in {"processed", "AssertionError"} =>
     evalOut.final_status = UNREGISTERED

\* The same, of the entries whose rule was not changed in between.
C29_AcceptedUnderSameRule ==
  (/\ evalOut.pc \in {"processed", "AssertionError"}
   /\ evalIn.time_to_activity = evalOut.time_to_activity) =>
     evalOut.final_status = UNREGISTERED

\* ---------------------------------------------------------------------
\* Registering again with force (C30)
\* ---------------------------------------------------------------------
\* The call of c is a RegisterOnline with force of a registrant who has an
\* ACTIVE registration.
ForcesAgain(c) ==
  /\ client[c].pc = "idle"
  /\ client'[c].pc = "done"
  /\ client'[c].op = "register"
  /\ client'[c].force_status
  /\ ActiveQuery(registrations, client'[c].user) # {}

\* C30: RegisterOnline with force, called while an ACTIVE registration of
\* the registrant exists, returns ENROLLED; a registration that is not
\* ENROLLED becomes ENROLLED, READY and forced, one that is ENROLLED is not
\* written; no rule is evaluated (no counter changes) and no registration
\* is created.
C30_ForcedReRegister ==
  [][\A c \in Clients :
        ForcesAgain(c) =>
           /\ client'[c].result = ENROLLED
           /\ \A k \in ActiveQuery(registrations, client'[c].user) :
                 registrations' = [registrations EXCEPT ![k] =
                    IF @.status # ENROLLED
                      THEN [@ EXCEPT !.status = ENROLLED, !.confirmed = READY,
                                     !.force_status = TRUE]
                      ELSE @]
           /\ UNCHANGED <<created, memcache>>]_vars

\* The call of d left the registrant waitlisted under key k; the forced
\* call of c found that registration and left it ENROLLED, READY and
\* forced.
C30_Witness ==
  \E c, d \in Clients, k \in RegIds :
     /\ client[d].pc = "done"
     /\ client[d].op = "register"
     /\ client[d].reg = k
     /\ client[d].result = WAITLISTED
     /\ client[c].pc = "done"
     /\ client[c].op = "register"
     /\ client[c].force_status
     /\ client[c].reg = 0
     /\ client[c].result = ENROLLED
     /\ registrations[k].user = client[c].user
     /\ registrations[k].active = ACTIVE
     /\ registrations[k].status = ENROLLED
     /\ registrations[k].confirmed = READY
     /\ registrations[k].force_status

\* ---------------------------------------------------------------------
\* The value a rebuild installs (C31)
\* ---------------------------------------------------------------------
\* The step is an UnregisterOnline that stores its unregister entry and
\* whose _Get found no online counter cached: the call has written no
\* provisional registration when the counter is rebuilt.
UnregisterRebuilds ==
  /\ created' = created + 1
  /\ registrations'[created'].exists
  /\ registrations'[created'].status = UNREGISTERED
  /\ memcache["online"].counter = Missing

\* C31: a rebuild of the online counter by a call that has written no
\* provisional registration installs the number of registrations counted
\* as consuming the resource, with nothing subtracted.
C31_RebuildWithoutProvisional ==
  [][UnregisterRebuilds =>
        memcache'["online"].counter = BuildContext(registrations, FALSE)]_vars

\* What the rebuild of such a call installs: one less than the count.
C31_RebuildSubtractsOne ==
  [][UnregisterRebuilds =>
        memcache'["online"].counter = BuildContext(registrations, FALSE) - 1]_vars

\* ---------------------------------------------------------------------
\* The order of the offline queue (C32)
\* ---------------------------------------------------------------------
\* The step is the offline evaluation of the READY registration j of a
\* status: an unregister entry is deleted, a registration is left
\* PROCESSED.
ProcessedOffline(j, status) ==
  /\ registrations[j].exists
  /\ registrations[j].status = status
  /\ registrations[j].confirmed = READY
  /\ IF status = UNREGISTERED
       THEN ~registrations'[j].exists
       ELSE registrations'[j].exists /\ registrations'[j].confirmed = PROCESSED

\* Registration k is waitlisted on the resource of the max_people rule.
WaitlistedOnResource(regs, k) ==
  /\ regs[k].exists
  /\ regs[k].status = WAITLISTED
  /\ regs[k].active = ACTIVE
  /\ ~regs[k].force_status
  /\ ResourceTag \in regs[k].affecting_rule_tags

\* The step is the query of _FetchAndProcessOffline of worker w, which
\* finds a record.
Fetches(w) ==
  /\ worker[w].pc = "fetch"
  /\ worker'[w].pc = "record"

\* A waitlisted registration j on the resource is enrolled by the offline
\* step.
EnrolledFromWaitlist(j) ==
  /\ ProcessedOffline(j, WAITLISTED)
  /\ WaitlistedOnResource(registrations, j)
  /\ registrations'[j].status = ENROLLED

\* C32: the offline step takes the READY registrations of a status in the
\* order of the queue (keys grow with the queue time), one per step, and a
\* waitlisted registration is enrolled offline only when no registration
\* queued before it is still waitlisted on the resource.
C32_QueueOrder ==
  [][/\ \A w \in Workers :
          Fetches(w) =>
             /\ worker'[w].rec = NextReady(registrations, worker[w].stage)
             /\ \A k \in 1..(worker'[w].rec - 1) :
                   ~(/\ registrations[k].exists
                     /\ registrations[k].status = worker[w].stage
                     /\ registrations[k].confirmed = READY)
     /\ \A j \in RegIds, status \in Statuses :
          ProcessedOffline(j, status) =>
             \A k \in RegIds \ {j} :
                \/ registrations'[k] = registrations[k]
                \/ k = registrations[j].parent
     /\ \A j \in RegIds :
          EnrolledFromWaitlist(j) =>
             \A k \in 1..(j - 1) : ~WaitlistedOnResource(registrations, k)]_vars

\* Capacity is free offline, two registrations waitlisted on the resource
\* are READY, and the offline step has fetched the one queued first.
C32_Witness ==
  \E w \in Workers, j, k \in RegIds :
     /\ j < k
     /\ worker[w].pc = "record"
     /\ worker[w].stage = WAITLISTED
     /\ worker[w].rec = j
     /\ WaitlistedOnResource(registrations, j)
     /\ registrations[j].confirmed = READY
     /\ WaitlistedOnResource(registrations, k)
     /\ registrations[k].confirmed = READY
     /\ BuildContext(registrations, TRUE) < max_people

\* ---------------------------------------------------------------------
\* A lock left behind by a killed holder (C33)
\* ---------------------------------------------------------------------
\* The lock record of name n is present and nobody alive holds it.
Orphaned(n) ==
  /\ locks[n].present
  /\ \A p \in Callers : ~(Holding(p) /\ caller[p].name = n)

\* Caller p acquires in this step.
Acquires(p) == caller[p].pc = "acquire" /\ caller'[p].pc = "run"

\* Caller p retries without limit on the orphaned lock n, whose record
\* expires at e.
RetriesOnOrphan(p, n, e) ==
  /\ caller[p].pc = "acquire"
  /\ caller[p].name = n
  /\ caller[p].try_count = 0
  /\ Orphaned(n)
  /\ locks[n].expire_time = e

\* C33: a lock whose holder was killed is recovered by expiry only: no
\* attempt acquires a lock that is present before its expire time has
\* passed, and a caller that keeps retrying acquires it once the expire
\* time has passed (unless it is killed or the lock is taken anew first).
C33_RecoveredByExpiry ==
  /\ [][\A p \in Callers :
          Acquires(p) =>
             \/ ~locks[caller[p].name].present
             \/ locks[caller[p].name].expire_time < now]_vars
  /\ \A p \in Callers, n \in CallerLockNames, e \in 0..(MaxTime - 1) :
        RetriesOnOrphan(p, n, e) ~>
           \/ caller[p].pc = "run" /\ now > e
           \/ caller[p].pc = "dead"
           \/ locks[n] # LockModel(e)

\* The holder of a lock was killed, the expire time of the record has
\* passed and the caller that kept retrying holds the lock.
C33_Witness ==
  \E p, q \in Callers :
     /\ caller[q].pc = "dead"
     /\ Holding(p)
     /\ caller[p].try_count = 0
     /\ caller[p].acquired.expire_time > MAX_LOCK_TICKS + 1
     /\ locks[caller[p].name] = caller[p].acquired

\* ---------------------------------------------------------------------
\* The query worker that checkpoints a cursor (C34)
\* ---------------------------------------------------------------------
\* _QueryResultsWork keeps the cursor of its query in a Configuration
\* entity.  The cursor is the number of results already passed; NO_CURSOR
\* starts the query from the beginning.  evalIn holds the query and the
\* policies of the work class, evalOut the stored cursor and what the
\* last call of PerformUnitWork did.
NO_CURSOR == 0
BatchSize == 2
MaxEntities == 6

WorkOutcomes == {"true", "false", "raises", "killed"}

Min(a, b) == IF a < b THEN a ELSE b

\* A PerformUnitWork that stores the cursor as soon as the batch is
\* fetched.
UnitWorkSaveFirst(cursor, entities, on_completion, on_error, outcome) ==
  LET fetched == Min(BatchSize, entities - cursor)
      returns == outcome \in {"true", "false", "none"}
      more == outcome \in {"true", "none"} /\ fetched = BatchSize
  IN [cursor |-> IF returns /\ ~more /\ on_completion THEN NO_CURSOR
                 ELSE cursor + fetched,
      from |-> cursor,
      fetched |-> fetched,
      outcome |-> outcome,
      more_work_pending |-> more]

\* PerformUnitWork with the stored cursor, the number of results of the
\* query, the two reset policies and the outcome of the fetch or of
\* _WorkOnResults: the stored cursor after the call and what was done.
UnitWork(cursor, entities, on_completion, on_error, outcome) ==
  LET fetched == IF outcome = "BadRequestError" THEN 0
                 ELSE Min(BatchSize, entities - cursor)
      returns == outcome \in {"true", "false", "none"}
      worked == outcome = "true" \/ outcome = "none"
      saved == IF fetched > 0 /\ outcome = "true" THEN cursor + fetched
               ELSE cursor
      more == worked /\ fetched = BatchSize
  IN [cursor |-> IF outcome = "BadRequestError"
                 THEN (IF on_error THEN NO_CURSOR ELSE cursor)
                 ELSE IF returns /\ ~more /\ on_completion THEN NO_CURSOR
                 ELSE saved,
      from |-> cursor,
      fetched |-> fetched,
      outcome |-> outcome,
      more_work_pending |-> more]

QueryInit ==
  /\ LockIdle
  /\ MainIdle
  /\ evalIn \in [entities : 0..MaxEntities,
                  reset_on_completion : BOOLEAN,
                  reset_on_cursor_error : BOOLEAN]
  /\ evalOut = [cursor |-> NO_CURSOR, from |-> NO_CURSOR, fetched |-> 0,
                outcome |-> "none", more_work_pending |-> FALSE]

\* One call of PerformUnitWork.  _WorkOnResults runs only on a batch that
\* is not empty.
PerformUnitWork(outcome) ==
  /\ outcome = "none" <=> Min(BatchSize, evalIn.entities - evalOut.cursor) = 0
  /\ evalOut' = UnitWork(evalOut.cursor, evalIn.entities,
                         evalIn.reset_on_completion,
                         evalIn.reset_on_cursor_error, outcome)
  /\ UNCHANGED <<evalIn, outsideEval>>

\* The fetch fails on the cursor.
PerformUnitWorkBadRequest ==
  /\ evalOut' = UnitWork(evalOut.cursor, evalIn.entities,
                         evalIn.reset_on_completion,
                         evalIn.reset_on_cursor_error, "BadRequestError")
  /\ UNCHANGED <<evalIn, outsideEval>>

QueryNext ==
  \/ \E outcome \in WorkOutcomes \cup {"none"} : PerformUnitWork(outcome)
  \/ PerformUnitWorkBadRequest

SpecQuery == QueryInit /\ [][QueryNext]_vars

\* The last call ran _WorkOnResults and it did not return true.
WorkFailed(out) == out.outcome \in {"false", "raises", "killed"}

\* C34 as stated: the stored cursor advances only when the work function
\* returned true, and it is left as it was when the work function raised,
\* was killed or returned false.
C34_CursorKeptUnlessTrue ==
  [][/\ evalOut'.cursor > evalOut.cursor => evalOut'.outcome = "true"
     /\ WorkFailed(evalOut') => evalOut'.cursor = evalOut.cursor]_vars

\* C34: the stored cursor advances only when the work function returned
\* true; it is left as it was when the work function raised or was
\* killed, and when it returned false without the reset policy; a call
\* that returns with no more work under the reset policy, the work
\* function having returned false included, clears the cursor; every call
\* fetches from the stored cursor; more work is reported only when the
\* work function returned true on a full batch.
C34_CursorAdvancesOnTrue ==
  [][/\ evalOut'.cursor > evalOut.cursor => evalOut'.outcome = "true"
     /\ evalOut'.outcome \in {"raises", "killed"} =>
           evalOut'.cursor = evalOut.cursor
     /\ evalOut'.outcome = "false" =>
           evalOut'.cursor = IF evalIn.reset_on_completion THEN NO_CURSOR
                             ELSE evalOut.cursor
     /\ evalOut'.from = evalOut.cursor
     /\ evalOut'.more_work_pending =>
           evalOut'.outcome = "true" /\ evalOut'.fetched = BatchSize
     /\ (/\ evalOut'.outcome \in {"true", "false", "none"}
         /\ ~evalOut'.more_work_pending
         /\ evalIn.reset_on_completion) => evalOut'.cursor = NO_CURSOR]_vars

\* The work function returned false on a batch past the first one and the
\* call cleared the stored cursor.
C34_Witness ==
  /\ evalIn.reset_on_completion
  /\ evalOut.outcome = "false"
  /\ evalOut.from > NO_CURSOR
  /\ evalOut.fetched = BatchSize
  /\ evalOut.cursor = NO_CURSOR

\* ---------------------------------------------------------------------
\* The namespace after an abnormal exit (C35)
\* ---------------------------------------------------------------------
\* What a run of the checkpointed unregister step that ends at cut leaves,
\* given the namespace it runs with.
CheckPointedRun(cut, namespace) ==
  IF cut = "none" THEN UnregisterOfflineUnsafe(Store, 2, namespace)
  ELSE UnregisterOfflineUpTo(Store, 2, namespace, cut)

CompletesOfflineStep(w) ==
  /\ worker[w].pc = "record"
  /\ worker'[w].pc = "end"
  /\ registrations[worker[w].rec].exists
  /\ registrations[worker[w].rec].status = worker[w].stage
  /\ registrations[worker[w].rec].confirmed = READY
  /\ ~run_in_progress'

\* C36: after every completed offline step the offline max_people counter,
\* if it is in the cache, equals the number of registrations that are
\* PROCESSED and ENROLLED.
C36_OfflineCounterExact ==
  [][\A w \in MainWorkers :
        CompletesOfflineStep(w) =>
           \/ memcache'["offline"].counter = Missing
           \/ memcache'["offline"].counter = BuildContext(registrations', TRUE)]_vars

\* The offline step has just completed; the cached counter counts a forced
\* enrollment beyond max_people and an enrollment whose unregister entry
\* is still READY.
C36_Witness ==
  /\ \E w \in MainWorkers : worker[w].pc = "end" /\ worker[w].more_processing
  /\ ~run_in_progress
  /\ memcache["offline"].counter = BuildContext(registrations, TRUE)
  /\ memcache["offline"].counter > max_people
  /\ \E k \in RegIds :
        /\ registrations[k].exists
        /\ registrations[k].status = ENROLLED
        /\ registrations[k].confirmed = PROCESSED
        /\ registrations[k].force_status
  /\ \E k, u \in RegIds :
        /\ registrations[k].exists
        /\ registrations[k].status = ENROLLED
        /\ registrations[k].confirmed = PROCESSED
        /\ registrations[u].exists
        /\ registrations[u].status = UNREGISTERED
        /\ registrations[u].confirmed = READY
        /\ registrations[u].parent = k

\* ---------------------------------------------------------------------
\* The prediction flag of the process (C37)
\* ---------------------------------------------------------------------
\* The calls of one process, one after the other.  evalOut holds the flag
\* that SetPredictionMode keeps in os.environ.
PredictInit ==
  /\ LockIdle
  /\ MainIdle
  /\ evalIn = <<>>
  /\ evalOut = [prediction_mode |-> FALSE]

\* PredictRegistrationOutcome in the process.  The flag is set, the rules
\* are evaluated and notified and the flag is cleared; when a rule that
\* follows the max_people rule raises, the exception leaves the function
\* at the call of _RulesEvaluate.
PredictInProcess(force_status, others, raises) ==
  /\ IF raises
       THEN /\ memcache' = [memcache EXCEPT !["online"] =
                   IncrPredicting(@, registrations)]
            /\ evalOut' = [prediction_mode |-> TRUE]
            /\ UNCHANGED <<registrations, created, reprocess_tags>>
       ELSE /\ Becomes(PredictRegistrationOutcome(Store, force_status,
                                                  others).store)
            /\ evalOut' = [prediction_mode |-> FALSE]
  /\ UNCHANGED <<lockLayerVars, evalIn, waitlist_reprocess, run_in_progress,
                 client, worker, max_people, unbroken>>

\* RegisterOnline in the process: the rules read the flag.
RegisterOnlineInProcess(user, force_status, others) ==
  /\ CanAcquire(RegistrationLock(user))
  /\ HasKeyFor(Store, user)
  /\ Becomes(IF evalOut.prediction_mode
               THEN RegisterOnlinePredicting(Store, user, force_status,
                                             others).store
               ELSE RegisterOnlineRules(Store, user, force_status,
                                        others).store)
  /\ UNCHANGED <<lockLayerVars, waitlist_reprocess, run_in_progress, client,
                 worker, outsideMain>>

PredictNext ==
  \/ \E force_status, raises \in BOOLEAN, others \in RegisterVerdicts :
        PredictInProcess(force_status, others, raises)
  \/ \E user \in Users, force_status \in BOOLEAN, others \in RegisterVerdicts :
        RegisterOnlineInProcess(user, force_status, others)
  \/ \E user \in Users : UnregisterOnlineRequest(user)
  \/ \E namespace \in Namespaces : Flush(namespace)

SpecPredict == PredictInit /\ [][PredictNext]_vars

\* A RegisterOnline call stores a new entry as ENROLLED on a cached counter.
EnrollsOnCachedCounter ==
  /\ created' = created + 1
  /\ registrations'[created'].exists
  /\ registrations'[created'].status = ENROLLED
  /\ registrations'[created'].confirmed = READY
  /\ memcache["online"].counter # Missing

\* C37: prediction mode is off whenever no PredictRegistrationOutcome call
\* is executing (every state of this specification lies between two
\* calls), whatever the exit path of the call was.
C37_PredictionOffBetweenCalls == ~evalOut.prediction_mode

\* With the flag off a RegisterOnline that stores an enrollment increments
\* the counter.
C37_RegisterIncrementsWhenOff ==
  [][(EnrollsOnCachedCounter /\ ~evalOut.prediction_mode) =>
        memcache'["online"].counter = memcache["online"].counter + 1]_vars

\* ---------------------------------------------------------------------
\* The provisional entry when RegisterOnline raises (C38)
\* ---------------------------------------------------------------------
\* The RegisterOnline call of client c has ended and the entry it wrote is
\* still NOT_READY.
ProvisionalLeft(c) ==
  /\ client[c].pc = "done"
  /\ client[c].op = "register"
  /\ client[c].reg # 0
  /\ registrations[client[c].reg].exists
  /\ registrations[client[c].reg].confirmed = NOT_READY

\* C38: no registration with confirmed = NOT_READY remains once the
\* RegisterOnline call that wrote it has ended, on any exit path.
C38_NoProvisionalLeft == \A c \in Clients : ~ProvisionalLeft(c)

\* A RegisterOnline call that ends with an answer leaves no entry that is
\* NOT_READY.
C38_NoProvisionalLeftOnAnswer ==
  \A c \in Clients :
     ProvisionalLeft(c) =>
        client[c].result \in {"AppengineError", "AssertionError"}

\* ---------------------------------------------------------------------
\* The release of a lock that has expired (C39)
\* ---------------------------------------------------------------------
\* Time passes whoever holds a lock: run_func may outlast the expire time
\* of the lock it runs under.
Overrun ==
  /\ now < MaxTime
  /\ now' = now + 1
  /\ UNCHANGED <<locks, caller, outsideLockLayer>>

ExpiryNext == LockNext \/ Overrun

SpecExpiry == LockInit /\ [][ExpiryNext]_vars

\* Caller p runs ReleaseLock while the record of its lock is no longer the
\* one it acquired.
ReleasesAfterTakeover(p) ==
  /\ caller[p].pc = "finally"
  /\ caller'[p].pc = "done"
  /\ caller[p].acquired.present
  /\ locks[caller[p].name].present
  /\ locks[caller[p].name] # caller[p].acquired

\* C39: ReleaseLock removes a lock record only if it is still the one the
\* releasing caller acquired: a holder whose lock expired and was acquired
\* by another caller leaves the record of the new holder in place.
C39_ReleaseOwnRecordOnly ==
  [][\A p \in Callers :
        ReleasesAfterTakeover(p) =>
           locks'[caller[p].name] = locks[caller[p].name]]_vars

\* A release removes the record under the name of the lock, whoever
\* acquired it.
C39_ReleaseDeletesByName ==
  [][\A p \in Callers :
        ReleasesAfterTakeover(p) => ~locks'[caller[p].name].present]_vars

\* ---------------------------------------------------------------------
\* The order in which the locks are taken (C40)
\* ---------------------------------------------------------------------
\* Every caller of RunSynchronous takes its locks one inside the other and
\* releases them in the reverse order.  A plan is the nest of lock names of
\* one call; evalOut holds, for every task, its plan, the number of locks
\* of the plan that it holds and whether it is on its way out.
NumTasks == 3

Tasks == 1..NumTasks

\* RegisterOnline, UnregisterOnline and _SyncRegistrationCalendar take the
\* lock of the registration; SaveRuleTagsToReprocess after a rule update
\* takes the lock of the tags; _SyncRegistrationsWithActivity takes the
\* lock of the activity.
SingleLockPlans ==
  {<<RegistrationLock(user)>> : user \in Users}
     \cup {<<ReprocessTagsLock>>, <<ActivityLock>>}

\* Offline steps that are not serialised by 'offline_process_run_lock'.
OfflinePlansUnserialized ==
  {<<ActivityLock, RegistrationLock(user), ReprocessTagsLock>> : user \in Users}
     \cup {<<ReprocessTagsLock, RegistrationLock(user)>> : user \in Users}

\* ProcessOfflineTask runs one unit under 'offline_process_run_lock': the
\* sync of a schedule (the lock of the activity), _FetchAndProcessOffline
\* (the lock of the activity, then of the registration, then, when the
\* tags are saved, of the tags) or _ReadyRegistrationsInWaiting (the lock
\* of the tags, then of a registration).
OfflinePlans ==
  {<<OfflineLock, ActivityLock>>, <<OfflineLock, ReprocessTagsLock>>}
     \cup {<<OfflineLock, ActivityLock, RegistrationLock(user)>> : user \in Users}
     \cup {<<OfflineLock, ActivityLock, RegistrationLock(user),
             ReprocessTagsLock>> : user \in Users}
     \cup {<<OfflineLock, ReprocessTagsLock, RegistrationLock(user)>> :
             user \in Users}

NoPlan == [plan |-> <<>>, held |-> 0, leaving |-> FALSE]

PlansInit ==
  /\ LockIdle
  /\ MainIdle
  /\ evalIn = <<>>
  /\ evalOut = [t \in Tasks |-> NoPlan]

\* A request or task starts.
StartPlan(t, plan) ==
  /\ evalOut[t] = NoPlan
  /\ evalOut' = [evalOut EXCEPT ![t] = [NoPlan EXCEPT !.plan = plan]]
  /\ UNCHANGED <<lockLayerVars, evalIn, mainVars, max_people, unbroken>>

\* The lock task t is to take next.
NextLock(t) == evalOut[t].plan[evalOut[t].held + 1]

\* Task t has locks left to take.
Entering(t) ==
  /\ ~evalOut[t].leaving
  /\ evalOut[t].held < Len(evalOut[t].plan)

\* RunSynchronous: AcquireLock has succeeded.
AcquireNext(t) ==
  /\ Entering(t)
  /\ CanAcquire(NextLock(t))
  /\ locks' = [locks EXCEPT ![NextLock(t)] = Acquired]
  /\ evalOut' = [evalOut EXCEPT ![t].held = @ + 1]
  /\ UNCHANGED <<now, caller, evalIn, mainVars, max_people, unbroken>>

\* RunSynchronous: run_func has ended, finally ReleaseLock.
ReleaseLast(t) ==
  LET me == evalOut[t]
  IN /\ me.held > 0
     /\ ~Entering(t)
     /\ locks' = [locks EXCEPT ![me.plan[me.held]] = ReleaseLock(@, Acquired)]
     /\ evalOut' = [evalOut EXCEPT ![t] =
           IF me.held = 1 THEN NoPlan
           ELSE [me EXCEPT !.held = @ - 1, !.leaving = TRUE]]
     /\ UNCHANGED <<now, caller, evalIn, mainVars, max_people, unbroken>>

PlansNext ==
  \/ \E t \in Tasks, plan \in SingleLockPlans \cup OfflinePlans :
        StartPlan(t, plan)
  \/ \E t \in Tasks : AcquireNext(t)
  \/ \E t \in Tasks : ReleaseLast(t)

SpecPlans == PlansInit /\ [][PlansNext]_vars

\* Task t waits for a lock that is held.
WaitsForLock(t) == Entering(t) /\ ~CanAcquire(NextLock(t))

\* Task u holds the lock of name n.
HoldsLock(u, n) ==
  \E i \in 1..evalOut[u].held : evalOut[u].plan[i] = n

\* C40: the locks are taken without deadlock: there is no set of callers
\* each of which waits for a lock held by a caller of the set.
C40_NoWaitCycle ==
  \A S \in SUBSET Tasks :
     S # {} =>
        ~(\A t \in S :
             WaitsForLock(t) /\ \E u \in S : HoldsLock(u, NextLock(t)))

\* The waitlist promotion holds the run lock and the lock of the tags and
\* waits for the lock of a registration that an online call holds, while
\* an offline step that would take the two locks in the other order waits
\* for the run lock.
C40_Witness ==
  \E t, u, v \in Tasks :
     /\ evalOut[t].plan = <<OfflineLock, ReprocessTagsLock, RegistrationLock("A")>>
     /\ evalOut[t].held = 2
     /\ WaitsForLock(t)
     /\ evalOut[v].plan = <<RegistrationLock("A")>>
     /\ evalOut[v].held = 1
     /\ evalOut[u].plan = <<OfflineLock, ActivityLock, RegistrationLock("A"),
                            ReprocessTagsLock>>
     /\ evalOut[u].held = 0
     /\ WaitsForLock(u)

====
